---- MODULE Spec2Model ----
(***************************************************************************)
(* FileOrganizer: the file-organization engine.                            *)
(*                                                                         *)
(* The model covers the batch orchestrators                                *)
(* (OrganizationService.organize_files_by_strategy and                     *)
(* UnorganizeService.unorganize_directory), the destination resolvers      *)
(* (DateOrganizer, TypeOrganizer, SmartOrganizer), the path and extension  *)
(* validation of ValidationService, FileService.move_file, the helpers of  *)
(* file_utils and the OperationProgress accumulator.                       *)
(*                                                                         *)
(* Paths are strings, as in the program; the filesystem is a map from the  *)
(* paths of regular files to file identities plus a set of directories.    *)
(* Wall-clock measurements (processing_time, elapsed_time and the values   *)
(* derived from them) are not part of the state.                           *)
(***************************************************************************)
EXTENDS Integers, Sequences, FiniteSets, TLC

(***************************************************************************)
(* Bounds of the model.                                                    *)
(***************************************************************************)
\* Largest number of files the scanned source directory holds.
MaxFiles == 3
\* Largest number of same-named files already present in a destination folder.
MaxExisting == 2
\* Largest number of operating-system faults (metadata, mkdir, move) per run.
MaxFaults == 1

\* The largest number of subscribers of one event type.
MaxSubscribers == 2
\* Largest number of subdirectories of a tree that hold a file of one name.
MaxSameName == 3
\* Largest number of results added to the OperationProgress whose summaries
\* are taken, and largest number of summaries taken from it.
MaxResults == 2
MaxSnapshots == 2
\* Largest total_files and processed_files of an OperationProgress whose
\* completion_percentage is read.
MaxTotal == 10
\* Largest number of unorganize calls on one directory.
MaxRuns == 2
\* The deepest chain of calls the interpreter allows (sys.getrecursionlimit).
RecursionLimit == 6

(***************************************************************************)
(* Strings: str and pathlib.PurePath operations used by the program.       *)
(***************************************************************************)
None == "<None>"

Char(s, i) == SubSeq(s, i, i)

\* str.startswith
StartsWith(s, p) == Len(p) <= Len(s) /\ SubSeq(s, 1, Len(p)) = p

\* str.rfind for a single character, 1-based; 0 when absent.
RECURSIVE RFindFrom(_, _, _)
RFindFrom(s, c, i) ==
    IF i = 0 THEN 0
    ELSE IF Char(s, i) = c THEN i
    ELSE RFindFrom(s, c, i - 1)

RFind(s, c) == RFindFrom(s, c, Len(s))

UpperChars == <<"A","B","C","D","E","F","G","H","I","J","K","L","M",
                "N","O","P","Q","R","S","T","U","V","W","X","Y","Z">>
LowerChars == <<"a","b","c","d","e","f","g","h","i","j","k","l","m",
                "n","o","p","q","r","s","t","u","v","w","x","y","z">>
Digits == {"0","1","2","3","4","5","6","7","8","9"}

\* The lower-case form of every upper-case letter.
LowerOf == [c \in {UpperChars[k] : k \in 1..26} |->
              LowerChars[CHOOSE k \in 1..26 : UpperChars[k] = c]]

LowerChar(c) == IF c \in DOMAIN LowerOf THEN LowerOf[c] ELSE c

\* str.lower
RECURSIVE Lower(_)
Lower(s) == IF s = "" THEN "" ELSE LowerChar(Char(s, 1)) \o Lower(SubSeq(s, 2, Len(s)))

\* str.lstrip('.')
RECURSIVE LStripDots(_)
LStripDots(s) ==
    IF s # "" /\ Char(s, 1) = "." THEN LStripDots(SubSeq(s, 2, Len(s))) ELSE s

Letters == {UpperChars[k] : k \in 1..26} \cup {LowerChars[k] : k \in 1..26}

\* str.isalnum: non-empty and every character a letter or a digit.
IsAlnum(s) == s # "" /\ \A i \in 1..Len(s) : Char(s, i) \in Digits \cup Letters

\* PurePath.name: the final component.
PathName(p) == SubSeq(p, RFind(p, "/") + 1, Len(p))

\* PurePath.parent.  Path(".") and Path("") are written "".
PathParent(p) ==
    LET k == RFind(p, "/")
    IN  IF k = 0 THEN ""
        ELSE IF k = 1 THEN "/"
        ELSE SubSeq(p, 1, k - 1)

\* PurePath.__truediv__ with a relative right operand.
PathJoin(folder, name) ==
    IF folder = "/" THEN "/" \o name
    ELSE IF folder = "" THEN name
    ELSE folder \o "/" \o name

\* PurePath.suffix of a file name: from the last dot, unless the dot is first or last.
PathSuffix(name) ==
    LET k == RFind(name, ".")
    IN  IF 1 < k /\ k < Len(name) THEN SubSeq(name, k, Len(name)) ELSE ""

\* PurePath.stem of a file name.
PathStem(name) ==
    LET k == RFind(name, ".")
    IN  IF 1 < k /\ k < Len(name) THEN SubSeq(name, 1, k - 1) ELSE name

\* PurePath.parents: every proper ancestor of p up to the root.
RECURSIVE PathParents(_)
PathParents(p) ==
    IF p = "/" \/ p = "" THEN {} ELSE {PathParent(p)} \cup PathParents(PathParent(p))

(***************************************************************************)
(* State.                                                                  *)
(***************************************************************************)
VARIABLES
    disk,             \* regular files on disk: path -> file identity
    dirs,             \* directories on disk
    strategy,         \* the strategy of the organize request
    source_dir,       \* the source directory of the request
    destination_dir,  \* the destination root of the organize request
    target_dir,       \* the flat target directory of the unorganize request
    pc,               \* position of the running batch
    queue,            \* files returned by the scan, in scan order
    idx,              \* index in queue of the file being processed
    destination_path, \* destination resolved for the current file
    progress,         \* the OperationProgress of the running batch
    events,           \* events published on the event bus, in order
    fslog,            \* validation, mkdir and move calls made so far, in order
    returned,         \* the calls of get_destination_path that returned: file and path
    return_value,     \* what unorganize_directory or organize_files returned
    faults,           \* operating-system faults that have occurred
    counters,         \* files_processed, files_moved and errors of the organizer
    bus,              \* the EventBus: its subscribers and its last dispatch
    cli,              \* the run of the command-line script unorganize.py
    mem,              \* the objects of an OperationProgress and of its summaries
    call              \* the last direct call of a function: arguments and result

vars == <<disk, dirs, strategy, source_dir, destination_dir, target_dir, pc, queue, idx,
          destination_path, progress, events, fslog, returned, return_value, faults,
          counters, bus, cli, mem, call>>

(***************************************************************************)
(* The files and directories of the modelled machine.                      *)
(***************************************************************************)
Cwd == "/home/u"
SourceDir == "/home/u/in"
DestinationDirs == {"/home/u/out", "/etc/out"}
OrganizedDir == "/home/u/out"
TargetDirs == {"/home/u/flat", "/etc/flat"}
Strategies == {"date", "type", "smart"}

\* datetime values: calendar year and month, and the day number used for
\* differences ((a - b).days is a.day - b.day).
Now == [year |-> 2026, month |-> 11, day |-> 1000]
Recent == [year |-> 2026, month |-> 10, day |-> 990]
Old == [year |-> 2026, month |-> 8, day |-> 910]
\* Exactly recent_days_threshold days before Now, one day more, and a date
\* an extractor reads from the content of a file.
Edge == [year |-> 2026, month |-> 10, day |-> 970]
PastEdge == [year |-> 2026, month |-> 10, day |-> 969]
Taken == [year |-> 2025, month |-> 3, day |-> 400]
\* What an extractor returns when the content of the file holds no date.
NoDate == [year |-> 0, month |-> 0, day |-> 0]

\* A file keeps its identity when it is moved: the identity is the path the
\* file had in the initial state. Size in bytes and modification time by identity;
\* XDate is the organization date the format-specific extractor reports.
Size(id) ==
    CASE PathName(id) = "a.jpg" /\ PathParent(id) = SourceDir -> 10
      [] PathName(id) = "b.pdf" -> 20
      [] PathName(id) = "c.exe" -> 30
      [] OTHER -> 40

MTime(id) ==
    CASE Char(PathName(id), 1) \in {"b", "c", "o", "y"} -> Old
      [] Char(PathName(id), 1) = "e" -> Edge
      [] Char(PathName(id), 1) = "f" -> PastEdge
      [] OTHER -> Recent

XDate(id) ==
    CASE Char(PathName(id), 1) = "x" -> Taken
      [] Char(PathName(id), 1) = "y" -> Recent
      [] OTHER -> NoDate

\* The files the source directory may hold.
SourceFiles == {"/home/u/in/a.jpg", "/home/u/in/b.pdf", "/home/u/in/c.exe"}

\* Files of the source directory that differ in extension, in modification
\* time and in the date the extractor reports (see MTime and XDate).
PlacementFiles ==
    { PathJoin(SourceDir, name) :
        name \in {"r.png", "o.jpg", "o.JPG", "o.txt", "o.zip", "o.dat", "e.jpg", "f.jpg",
                   "x.jpg", "y.mp3"} }

\* Same-named files a destination tree may already hold: k of them (a.jpg,
\* a_1.jpg, ...) in each of the two folders a.jpg can be resolved to.
ExistingFolders == {"/home/u/out/2026/10", "/home/u/out/Images"}

ExistingFiles(k) ==
    { PathJoin(folder, IF j = 0 THEN "a.jpg" ELSE "a_" \o ToString(j) \o ".jpg") :
        folder \in ExistingFolders, j \in 0..(k - 1) }

\* The absolute path the operating system uses for a path: a relative path
\* is taken from the current working directory.
OsPath(p) ==
    IF p = "" THEN Cwd
    ELSE IF Char(p, 1) = "/" THEN p
    ELSE Cwd \o "/" \o p

\* Path.exists, Path.is_file, Path.is_dir
Exists(p) == OsPath(p) \in DOMAIN disk \/ OsPath(p) \in dirs
IsFile(p) == OsPath(p) \in DOMAIN disk
IsDir(p) == OsPath(p) \in dirs

(***************************************************************************)
(* services/core/validation_service.py                                     *)
(***************************************************************************)
max_path_length == 4096

dangerous_paths ==
    { "/system", "/usr/bin", "/usr/sbin", "/bin", "/sbin",
      "/etc", "/var/log", "/private/etc", "/private/var/log",
      "c:\\windows", "c:\\program files", "c:\\program files (x86)",
      "c:\\programdata", "c:\\system volume information",
      "/boot", "/dev", "/proc", "/sys", "/run" }

dangerous_extensions ==
    { "exe", "bat", "cmd", "com", "pif", "scr", "vbs", "js", "jar",
      "app", "deb", "pkg", "dmg", "rpm", "run", "msi", "dll", "so" }

\* The NUL character of a Python string is written "@" in the model.
Nul == "@"

\* str.replace('\0', '')
RECURSIVE StripNul(_)
StripNul(s) ==
    IF s = "" THEN ""
    ELSE IF Char(s, 1) = Nul THEN StripNul(SubSeq(s, 2, Len(s)))
    ELSE Char(s, 1) \o StripNul(SubSeq(s, 2, Len(s)))

\* str.find for a single character from position i, 1-based; Len(s) + 1 when absent.
RECURSIVE FindFrom(_, _, _)
FindFrom(s, c, i) ==
    IF i > Len(s) THEN Len(s) + 1
    ELSE IF Char(s, i) = c THEN i
    ELSE FindFrom(s, c, i + 1)

\* The components of a path string from position i on, split at "/".
RECURSIVE SplitPath(_, _)
SplitPath(s, i) ==
    LET k == FindFrom(s, "/", i)
    IN  IF k > Len(s) THEN <<SubSeq(s, i, Len(s))>>
        ELSE <<SubSeq(s, i, k - 1)>> \o SplitPath(s, k + 1)

\* Folding of "", "." and ".." components, as Path.resolve does on a
\* filesystem without symbolic links (the model has none).
RECURSIVE FoldDots(_, _)
FoldDots(parts, stack) ==
    IF parts = <<>> THEN stack
    ELSE LET c == Head(parts)
         IN  IF c = "" \/ c = "." THEN FoldDots(Tail(parts), stack)
             ELSE IF c = ".."
                  THEN FoldDots(Tail(parts),
                                IF stack = <<>> THEN stack
                                ELSE SubSeq(stack, 1, Len(stack) - 1))
                  ELSE FoldDots(Tail(parts), Append(stack, c))

RECURSIVE JoinPath(_)
JoinPath(stack) == IF stack = <<>> THEN "" ELSE "/" \o Head(stack) \o JoinPath(Tail(stack))

\* str(Path(p).resolve().absolute())
Resolve(p) ==
    LET abs == IF StartsWith(p, "/") THEN p ELSE Cwd \o "/" \o p
        s   == JoinPath(FoldDots(SplitPath(abs, 1), <<>>))
    IN  IF s = "" THEN "/" ELSE s

\* ValidationService.is_symlink_safe: the path it is given has been resolved,
\* so neither it nor a parent is a symbolic link.
is_symlink_safe(path) == TRUE

\* The nearest existing ancestor reached by the upward walk of is_safe_path.
RECURSIVE ExistingAncestor(_)
ExistingAncestor(p) ==
    IF Exists(p) \/ p = PathParent(p) THEN p ELSE ExistingAncestor(PathParent(p))

\* danger.lower() for every entry of dangerous_paths.
dangerous_paths_lower == {Lower(danger) : danger \in dangerous_paths}

\* Mutant of is_safe_path: a denylist entry matches whole components only.
is_safe_path_by_component(abs_path) ==
    LET path_lower == Lower(abs_path)
    IN  IF \E danger \in dangerous_paths_lower :
               \/ path_lower = danger
               \/ StartsWith(path_lower, danger \o "/")
               \/ StartsWith(path_lower, danger \o "\\")
        THEN FALSE
        ELSE IF IsFile(abs_path) THEN TRUE
        ELSE IF Exists(abs_path) /\ IsDir(abs_path) THEN TRUE
        ELSE LET current_path == ExistingAncestor(abs_path)
             IN  Exists(current_path) /\ IsDir(current_path)

\* ValidationService.is_safe_path
is_safe_path(abs_path) ==
    LET path_lower == Lower(abs_path)
    IN  IF \E danger \in dangerous_paths_lower : StartsWith(path_lower, danger)
        THEN FALSE
        ELSE IF IsFile(abs_path) THEN TRUE
        ELSE IF Exists(abs_path) /\ IsDir(abs_path) THEN TRUE
        ELSE LET current_path == ExistingAncestor(abs_path)
             IN  Exists(current_path) /\ IsDir(current_path)

\* Mutant of validate_and_sanitize_path: is_safe_path is not consulted.
validate_and_sanitize_path_unchecked(path_input) ==
    IF path_input = "" THEN Cwd ELSE Resolve(StripNul(path_input))

\* ValidationService.validate_and_sanitize_path: the safe absolute path, or None.
validate_and_sanitize_path(path_input) ==
    IF path_input = "" THEN Cwd
    ELSE LET clean_path == StripNul(path_input)
             abs_path   == Resolve(clean_path)
         IN  IF Len(abs_path) > max_path_length THEN None
             ELSE IF ~is_symlink_safe(abs_path) THEN None
             ELSE IF ~is_safe_path(abs_path) THEN None
             ELSE abs_path

\* Mutant of validate_file_extension: the denylist of dangerous extensions is
\* not consulted.
validate_file_extension_lax(file_extension) ==
    IF file_extension = "" THEN FALSE
    ELSE LET ext == Lower(LStripDots(file_extension))
         IN  Len(ext) <= 10 /\ IsAlnum(ext)

\* ValidationService.validate_file_extension
validate_file_extension(file_extension) ==
    IF file_extension = "" THEN FALSE
    ELSE LET ext == Lower(LStripDots(file_extension))
         IN  IF ext \in dangerous_extensions THEN FALSE
             ELSE IF Len(ext) > 10 THEN FALSE
             ELSE IF ~IsAlnum(ext) THEN FALSE
             ELSE TRUE

(***************************************************************************)
(* file_operations/file_utils.py                                           *)
(***************************************************************************)
\* The while loop of get_unique_file_path: the first free name among
\* stem_counter, stem_(counter+1), ...
RECURSIVE unique_loop(_, _, _, _, _)
unique_loop(destination_folder, stem, suffix, counter, destination) ==
    IF Exists(destination)
    THEN unique_loop(destination_folder, stem, suffix, counter + 1,
                     PathJoin(destination_folder, stem \o "_" \o ToString(counter) \o suffix))
    ELSE destination

\* Mutant of get_unique_file_path: the counter is tried once, without the loop.
get_unique_file_path_once(destination_folder, filename) ==
    LET destination == PathJoin(destination_folder, filename)
    IN  IF ~Exists(destination) THEN destination
        ELSE PathJoin(destination_folder,
                      PathStem(filename) \o "_1" \o PathSuffix(filename))

\* Mutant of get_unique_file_path: the existence check is missing.
get_unique_file_path_naive(destination_folder, filename) ==
    PathJoin(destination_folder, filename)

\* get_unique_file_path
get_unique_file_path(destination_folder, filename) ==
    LET destination == PathJoin(destination_folder, filename)
    IN  IF ~Exists(destination) THEN destination
        ELSE unique_loop(destination_folder, PathStem(filename), PathSuffix(filename),
                         1, destination)

\* get_file_modification_date
get_file_modification_date(file_path) == MTime(disk[file_path])

\* Path.mkdir(parents=True, exist_ok=True) raises OSError when the path or one
\* of its ancestors is a regular file.
MkdirBlocked(directory_path) ==
    \E p \in {OsPath(directory_path)} \cup PathParents(OsPath(directory_path)) : IsFile(p)

\* The directories on disk after Path.mkdir(parents=True, exist_ok=True).
MkdirDirs(directory_path) ==
    dirs \cup {OsPath(directory_path)} \cup PathParents(OsPath(directory_path))

\* ensure_directory_exists: its return value; os_fault is an OSError of the
\* operating system (permissions, a full or read-only volume).
ensure_directory_exists(directory_path, os_fault) ==
    ~os_fault /\ ~MkdirBlocked(directory_path)

(***************************************************************************)
(* The log of filesystem calls.                                            *)
(***************************************************************************)
ValidateCall(path, result) == [op |-> "validate", path |-> path, ok |-> result # None]
MkdirCall(path, result) == [op |-> "mkdir", path |-> path, ok |-> result]
MoveCall(path, result) == [op |-> "move", path |-> path, ok |-> result]

(***************************************************************************)
(* services/metadata/metadata_service.py                                   *)
(***************************************************************************)
\* MetadataService.get_best_organization_date: the extractor's date, else the
\* file's own timestamp.
get_best_organization_date(file_path) ==
    IF XDate(disk[file_path]) # NoDate THEN XDate(disk[file_path])
    ELSE MTime(disk[file_path])

\* MetadataService.get_organization_info: the keys of the dictionary it builds.
get_organization_info(file_path) ==
    [ file_type     |-> "other",
      creation_date |-> get_best_organization_date(file_path),
      is_media      |-> FALSE,
      file_size     |-> Size(disk[file_path]) ]

\* dict.get(key) with the default None.
DictGet(d, key) == IF key \in DOMAIN d THEN d[key] ELSE None

(***************************************************************************)
(* file_operations/file_types.py                                           *)
(***************************************************************************)
FILE_TYPE_CATEGORIES ==
    << [category |-> "Images", extensions |->
          {".jpg", ".jpeg", ".png", ".gif", ".bmp", ".tiff", ".tif",
           ".svg", ".webp", ".ico", ".raw", ".cr2", ".nef", ".orf", ".dng"}],
       [category |-> "Documents", extensions |->
          {".pdf", ".doc", ".docx", ".txt", ".rtf", ".odt", ".xls",
           ".xlsx", ".ppt", ".pptx", ".csv", ".md", ".tex"}],
       [category |-> "Videos", extensions |->
          {".mp4", ".avi", ".mkv", ".mov", ".wmv", ".flv", ".webm",
           ".m4v", ".mpg", ".mpeg", ".3gp", ".ogv"}],
       [category |-> "Audio", extensions |->
          {".mp3", ".wav", ".flac", ".aac", ".ogg", ".wma", ".m4a",
           ".opus", ".aiff", ".au"}],
       [category |-> "Archives", extensions |->
          {".zip", ".rar", ".7z", ".tar", ".gz", ".bz2", ".xz",
           ".tar.gz", ".tar.bz2", ".tar.xz"}],
       [category |-> "Code", extensions |->
          {".py", ".js", ".html", ".css", ".cpp", ".c", ".java",
           ".php", ".rb", ".go", ".rs", ".swift", ".kt", ".ts"}],
       [category |-> "Executables", extensions |->
          {".exe", ".msi", ".deb", ".rpm", ".dmg", ".pkg", ".app",
           ".apk", ".ipa"}] >>

MEDIA_EXTENSIONS ==
    FILE_TYPE_CATEGORIES[1].extensions \cup FILE_TYPE_CATEGORIES[3].extensions
        \cup FILE_TYPE_CATEGORIES[4].extensions

DOCUMENT_EXTENSIONS == FILE_TYPE_CATEGORIES[2].extensions

\* The first category, in table order, that lists the extension; None otherwise.
CategoryOf(file_extension) ==
    IF \E k \in 1..Len(FILE_TYPE_CATEGORIES) :
          file_extension \in FILE_TYPE_CATEGORIES[k].extensions
    THEN FILE_TYPE_CATEGORIES[
            CHOOSE k \in 1..Len(FILE_TYPE_CATEGORIES) :
               /\ file_extension \in FILE_TYPE_CATEGORIES[k].extensions
               /\ \A j \in 1..(k - 1) :
                     file_extension \notin FILE_TYPE_CATEGORIES[j].extensions ].category
    ELSE None

(***************************************************************************)
(* organizers: the destination resolvers.  A resolver yields either        *)
(* [ok |-> TRUE, path, calls] or, when it raises, [ok |-> FALSE, error,    *)
(* calls]; calls are the validation calls it made.                         *)
(***************************************************************************)
Returns(path, calls) == [ok |-> TRUE, path |-> path, error |-> None, calls |-> calls]
Raises(error, calls) == [ok |-> FALSE, path |-> None, error |-> error, calls |-> calls]

\* datetime.strftime("%Y") and datetime.strftime("%m")
strftime_Y(date) == ToString(date.year)
strftime_m(date) == IF date.month < 10 THEN "0" \o ToString(date.month)
                    ELSE ToString(date.month)

\* DateOrganizer.get_destination_path
Date_get_destination_path(file_path, destination_root) ==
    LET organization_info == get_organization_info(file_path)
        hint              == DictGet(organization_info, "date")
        organization_date == IF hint = None THEN get_file_modification_date(file_path)
                             ELSE hint
        destination_folder ==
            PathJoin(PathJoin(destination_root, strftime_Y(organization_date)),
                     strftime_m(organization_date))
    IN  Returns(get_unique_file_path(destination_folder, PathName(file_path)), <<>>)

\* TypeOrganizer._get_file_category; file_type is metadata.get('type', '').lower(),
\* which the extractors of the model leave empty.
Type_get_file_category(file_extension, file_type) ==
    IF CategoryOf(file_extension) # None THEN CategoryOf(file_extension)
    ELSE "Other"

\* TypeOrganizer.get_destination_path
Type_get_destination_path(file_path, destination_root) ==
    LET file_extension     == Lower(PathSuffix(PathName(file_path)))
        category           == Type_get_file_category(file_extension, "")
        destination_folder == PathJoin(destination_root, category)
    IN  Returns(get_unique_file_path(destination_folder, PathName(file_path)), <<>>)

recent_days_threshold == 30

\* SmartOrganizer._has_rich_metadata: a rich field present with a truthy
\* value; the model holds a rich field as the truth value of its content.
Smart_has_rich_metadata(organization_info) ==
    \E f \in {"camera", "has_location", "artist", "album", "author", "creator"} :
        f \in DOMAIN organization_info /\ organization_info[f]

\* Mutant of Smart_select_strategy: a file is recent only when younger than
\* the threshold.
Smart_select_strategy_strict(file_extension, organization_info, organization_date) ==
    IF Now.day - organization_date.day < recent_days_threshold THEN "date_primary"
    ELSE "date_type"

\* Mutant of Smart_select_strategy: documents that are not recent are placed
\* by type, then date.
Smart_select_strategy_by_type(file_extension, organization_info, organization_date) ==
    IF Now.day - organization_date.day <= recent_days_threshold THEN "date_primary"
    ELSE IF file_extension \in DOCUMENT_EXTENSIONS THEN "type_date"
    ELSE "date_type"

\* SmartOrganizer._select_strategy; organization_date is never empty, since
\* get_best_organization_date always returns a date.
Smart_select_strategy(file_extension, organization_info, organization_date) ==
    LET days_old  == Now.day - organization_date.day
        is_recent == days_old <= recent_days_threshold
    IN  IF is_recent THEN "date_primary"
        ELSE IF /\ file_extension \in MEDIA_EXTENSIONS
                /\ Smart_has_rich_metadata(organization_info) THEN "date_type"
        ELSE IF file_extension \in DOCUMENT_EXTENSIONS THEN "date_type"
        ELSE "date_type"

\* SmartOrganizer._get_file_category
Smart_get_file_category(file_extension) ==
    IF CategoryOf(file_extension) # None THEN CategoryOf(file_extension) ELSE "Other"

\* The destination folder of each placement of SmartOrganizer
\* (_organize_by_date_primary, _organize_by_type_then_date,
\* _organize_by_date_then_type, _organize_by_type_primary).
Smart_destination_folder(placement, file_path, destination_root, organization_date) ==
    LET year_folder   == strftime_Y(organization_date)
        month_folder  == strftime_m(organization_date)
        file_category == Smart_get_file_category(Lower(PathSuffix(PathName(file_path))))
    IN  CASE placement = "date_primary" ->
               PathJoin(PathJoin(destination_root, year_folder), month_folder)
          [] placement = "type_date" ->
               PathJoin(PathJoin(PathJoin(destination_root, file_category), year_folder),
                        month_folder)
          [] placement = "date_type" ->
               PathJoin(PathJoin(PathJoin(destination_root, year_folder), month_folder),
                        file_category)
          [] OTHER -> PathJoin(destination_root, file_category)

\* SmartOrganizer.get_destination_path with _validate_destination_path
Smart_get_destination_path(file_path, destination_root) ==
    LET file_extension == Lower(PathSuffix(PathName(file_path)))
    IN  IF ~validate_file_extension(file_extension)
        THEN Raises("Invalid or dangerous file extension: " \o file_extension, <<>>)
        ELSE LET organization_date  == get_best_organization_date(file_path)
                 organization_info  == get_organization_info(file_path)
                 placement          == Smart_select_strategy(file_extension,
                                           organization_info, organization_date)
                 destination_folder ==
                     Smart_destination_folder(placement, file_path, destination_root,
                                              organization_date)
                 validated == validate_and_sanitize_path(destination_folder)
                 calls     == <<ValidateCall(destination_folder, validated)>>
             IN  IF validated = None
                 THEN Raises("Invalid destination path: " \o destination_folder, calls)
                 ELSE Returns(get_unique_file_path(destination_folder,
                                                   PathName(file_path)), calls)

\* OrganizationService._create_organizer: unknown strategy names fall back to smart.
create_organizer(strategy_name) ==
    IF strategy_name \in {"date", "type", "smart"} THEN strategy_name ELSE "smart"

\* organizer.get_destination_path of the organizer the factory created.
get_destination_path(organizer, file_path, destination_root) ==
    CASE organizer = "date" -> Date_get_destination_path(file_path, destination_root)
      [] organizer = "type" -> Type_get_destination_path(file_path, destination_root)
      [] OTHER              -> Smart_get_destination_path(file_path, destination_root)

(***************************************************************************)
(* file_operations/file_service.py                                         *)
(***************************************************************************)
\* FileService.move_file: its return value, the filesystem after it and the
\* calls it made.  os_fault is an exception of shutil.move or of mkdir.
move_file(source_path, destination, os_fault) ==
    LET safe_source      == validate_and_sanitize_path(source_path)
        safe_destination == validate_and_sanitize_path(destination)
        calls1 == << ValidateCall(source_path, safe_source),
                     ValidateCall(destination, safe_destination) >>
        unchanged(calls) == [ok |-> FALSE, disk |-> disk, dirs |-> dirs, calls |-> calls]
    IN  IF safe_source = None \/ safe_destination = None THEN unchanged(calls1)
        ELSE LET destination_dir_ == PathParent(safe_destination)
                 made   == ensure_directory_exists(destination_dir_, FALSE)
                 calls2 == Append(calls1, MkdirCall(destination_dir_, made))
                 \* shutil.move into an existing directory moves under it
                 real_destination ==
                     IF IsDir(safe_destination)
                     THEN PathJoin(safe_destination, PathName(safe_source))
                     ELSE safe_destination
                 moved  == /\ ~os_fault
                           /\ IsFile(safe_source)
                           /\ ~(IsDir(safe_destination) /\ Exists(real_destination))
             IN  IF ~made THEN unchanged(calls2)
                 ELSE IF ~moved
                      THEN [ok |-> FALSE, disk |-> disk, dirs |-> MkdirDirs(destination_dir_),
                            calls |-> Append(calls2, MoveCall(safe_destination, FALSE))]
                      ELSE [ok |-> TRUE,
                            disk |-> [q \in (DOMAIN disk \ {safe_source})
                                               \cup {real_destination} |->
                                        IF q = real_destination THEN disk[safe_source]
                                        ELSE disk[q]],
                            dirs |-> MkdirDirs(destination_dir_),
                            calls |-> Append(calls2, MoveCall(safe_destination, TRUE))]

(***************************************************************************)
(* models/operation_result.py                                              *)
(***************************************************************************)
FileOperationResult(source_file, operation, success, destination, error_message, file_size, original_source_path, organized_destination_path) ==
    [ source_file      |-> source_file,
      operation        |-> operation,
      success          |-> success,
      destination_path |-> destination,
      error_message    |-> error_message,
      file_size        |-> file_size,
      original_source_path       |-> original_source_path,
      organized_destination_path |-> organized_destination_path ]

\* OperationProgress(operation_id, total_files)
OperationProgress(total_files) ==
    [ total_files      |-> total_files,
      processed_files  |-> 0,
      successful_files |-> 0,
      failed_files     |-> 0,
      current_file     |-> None,
      results          |-> <<>> ]

\* The local variable progress before OperationProgress(...) is assigned to it.
NoProgress == OperationProgress(-1)

\* A float as the exact fraction it stands for, in lowest terms.
RECURSIVE Gcd(_, _)
Gcd(a, b) == IF b = 0 THEN a ELSE Gcd(b, a % b)

Float(n, d) == [numerator |-> n \div Gcd(n, d), denominator |-> d \div Gcd(n, d)]

\* The outcome of a division by zero, which raises ZeroDivisionError.
ZeroDivisionError == [numerator |-> 1, denominator |-> 0]

\* a / b and x * 100.0
TrueDiv(a, b) == IF b = 0 THEN ZeroDivisionError ELSE Float(a, b)
Times100(x) ==
    IF x = ZeroDivisionError THEN x ELSE Float(x.numerator * 100, x.denominator)

\* Mutant of completion_percentage: an empty batch is not set apart.
completion_percentage_unguarded(self) ==
    Times100(TrueDiv(self.processed_files, self.total_files))

\* OperationProgress.completion_percentage
completion_percentage(self) ==
    IF self.total_files = 0 THEN Float(100, 1)
    ELSE Times100(TrueDiv(self.processed_files, self.total_files))

\* Mutant of add_result: the result is put in front of the earlier ones.
add_result_prepend(p, result) ==
    [ p EXCEPT !.results          = <<result>> \o @,
               !.processed_files  = @ + 1,
               !.successful_files = IF result.success THEN @ + 1 ELSE @,
               !.failed_files     = IF result.success THEN @ ELSE @ + 1 ]

\* Mutant of add_result: total_files is counted down to the files remaining.
add_result_remaining(p, result) ==
    [ p EXCEPT !.results          = Append(@, result),
               !.total_files      = @ - 1,
               !.processed_files  = @ + 1,
               !.successful_files = IF result.success THEN @ + 1 ELSE @,
               !.failed_files     = IF result.success THEN @ ELSE @ + 1 ]

\* Mutant of add_result: a failed result is appended but not counted.
add_result_miscount(p, result) ==
    [ p EXCEPT !.results          = Append(@, result),
               !.processed_files  = @ + 1,
               !.successful_files = IF result.success THEN @ + 1 ELSE @ ]

\* OperationProgress.add_result
add_result(p, result) ==
    [ p EXCEPT !.results          = Append(@, result),
               !.processed_files  = @ + 1,
               !.successful_files = IF result.success THEN @ + 1 ELSE @,
               !.failed_files     = IF result.success THEN @ ELSE @ + 1 ]

\* OperationProgress.get_failed_operations
get_failed_operations(p) == SelectSeq(p.results, LAMBDA r : ~r.success)

\* OperationProgress.get_summary without the time-derived entries.
get_summary(p) ==
    [ total_files |-> p.total_files,
      processed   |-> p.processed_files,
      successful  |-> p.successful_files,
      failed      |-> p.failed_files,
      results     |-> p.results ]

(***************************************************************************)
(* core/events.py                                                          *)
(***************************************************************************)
\* EventBus.publish: the event joins the sequence of published events.
\* Mutant of publish: file_error events are not dispatched.
publish_no_errors(log, event_type, data) ==
    IF event_type = "file_error" THEN log
    ELSE Append(log, [type |-> event_type, data |-> data])

publish(log, event_type, data) == Append(log, [type |-> event_type, data |-> data])

(***************************************************************************)
(* Initial state: a source directory with at most MaxFiles files, an       *)
(* organized tree with at most MaxExisting files named like a.jpg in each  *)
(* folder a.jpg can go to, and no request handled yet.                     *)
(***************************************************************************)
\* The event types and the subscriber callbacks of the modelled bus.
EventTypes == {"organization_progress", "file_error"}
Callbacks == {"on_a", "on_b"}

\* EventBus.__init__: no subscribers; nothing dispatched yet.
EventBus ==
    [ subscribers |-> [t \in EventTypes |-> <<>>],
      last        |-> [event_type |-> None, registered |-> <<>>, raising |-> {},
                       called |-> <<>>, printed |-> <<>>, propagated |-> FALSE] ]

\* BaseOrganizer.__init__, lines 13-15, and reset_counters.
reset_counters == [files_processed |-> 0, files_moved |-> 0, errors |-> 0]

\* unorganize.py before main runs: no frame of cleanup_empty_dirs, nothing
\* printed, no exception raised.
CliIdle ==
    [ pc |-> "idle", files |-> <<>>, i |-> 0, files_moved |-> 0, retries |-> -1,
      depth |-> 0, attempts |-> 0, printed |-> <<>>, raised |-> None ]

\* The objects in memory after OperationProgress(total_files=MaxResults): the
\* OperationProgress at address 1 and its empty results list at address 2.  An
\* address is an index of heap; a list holds the addresses of its items.
\* snapshots are the summaries handed out: the address of each, its value when
\* it was taken, and whether its holder has changed it since.  added are the
\* results given to add_result so far.
NoSummaries ==
    [ heap |-> << [ total_files |-> MaxResults, processed_files |-> 0,
                    successful_files |-> 0, failed_files |-> 0, results |-> 2 ],
                  [ items |-> <<>> ] >>,
      snapshots |-> <<>>,
      added |-> <<>> ]

\* No function has been called directly.
NoCall == [function |-> None, args |-> <<>>, result |-> None]

\* The state before any request: nothing resolved, published or logged.
NoRequest ==
    /\ call = NoCall
    /\ cli = CliIdle
    /\ mem = NoSummaries
    /\ strategy = None
    /\ source_dir = None
    /\ destination_dir = None
    /\ target_dir = None
    /\ queue = <<>>
    /\ idx = 0
    /\ destination_path = None
    /\ progress = NoProgress
    /\ events = <<>>
    /\ fslog = <<>>
    /\ returned = <<>>
    /\ return_value = None
    /\ faults = 0
    /\ counters = reset_counters
    /\ bus = EventBus

Init ==
    /\ \E src \in SUBSET SourceFiles, k \in 0..MaxExisting :
          /\ Cardinality(src) <= MaxFiles
          /\ disk = [p \in src \cup ExistingFiles(k) |-> p]
          /\ dirs = {"/", "/etc", SourceDir} \cup PathParents(SourceDir)
                       \cup UNION {PathParents(p) : p \in ExistingFiles(k)}
    /\ pc = "idle"
    /\ NoRequest

\* The choices open to the operating system: a fault only while the budget lasts.
FaultChoices == IF faults < MaxFaults THEN BOOLEAN ELSE {FALSE}

\* The regular files and the directories directly in a directory.
FilesIn(directory) == {p \in DOMAIN disk : PathParent(p) = directory}
DirsIn(directory) == {p \in dirs : p # "/" /\ PathParent(p) = directory}

\* The orders in which the operating system may list a set of entries.
Orders(S) ==
    {q \in [1..Cardinality(S) -> S] : \A i, j \in 1..Cardinality(S) : q[i] = q[j] => i = j}

(***************************************************************************)
(* services/core/organization_service.py                                   *)
(***************************************************************************)
\* OrganizationService.handle_organize_request up to its call of
\* organize_files_by_strategy.
handle_organize_request ==
    /\ pc = "idle"
    /\ strategy' \in Strategies
    /\ destination_dir' \in DestinationDirs
    /\ source_dir' = SourceDir
    /\ events' = publish(events, "organization_started",
                         [strategy |-> strategy', source_directory |-> source_dir',
                          destination_directory |-> destination_dir'])
    /\ pc' = "scan"
    /\ UNCHANGED <<call, mem, cli, bus, counters, disk, dirs, target_dir, queue, idx, destination_path, progress,
                   fslog, returned, return_value, faults>>

\* OrganizationService.scan_directory: the regular files directly in the source
\* directory, in listing order.
scan_directory(source) == Orders(FilesIn(source))

\* organize_files_by_strategy, lines 62-68: scan_directory, the new
\* OperationProgress and the "Files discovered" event; or the outer except
\* clause (lines 123-125) when the scan raises.
scan_and_start ==
    /\ pc = "scan"
    /\ \E os_fault \in FaultChoices :
          IF os_fault \/ ~IsDir(source_dir)
          THEN /\ events' = publish(events, "organization_failed",
                                    [error |-> "scan failed", status |-> "Organization failed"])
               /\ pc' = "failed"
               /\ faults' = faults + 1
               /\ UNCHANGED <<queue, idx, progress>>
          ELSE \E files_to_organize \in scan_directory(source_dir) :
               /\ queue' = files_to_organize
               /\ progress' = OperationProgress(Len(files_to_organize))
               /\ events' = publish(events, "organization_progress",
                                    [progress |-> get_summary(progress'),
                                     status |-> "Files discovered"])
               /\ idx' = 1
               /\ pc' = IF files_to_organize = <<>> THEN "complete" ELSE "resolve"
               /\ UNCHANGED faults
    /\ UNCHANGED <<call, mem, cli, bus, counters, disk, dirs, strategy, source_dir, destination_dir, target_dir,
                   destination_path, fslog, returned, return_value>>

\* The position after the file at idx: the next file, or the completion.
NextPosition == IF idx = Len(queue) THEN "complete" ELSE "resolve"

\* Mutant of RecordFailure: the failed result is recorded without the message
\* of the exception.
RecordFailure_silent(file_path, error) ==
    LET result == FileOperationResult(PathName(file_path), "organize", FALSE, None,
                                      None, 0, None, None)
    IN  /\ progress' = add_result([progress EXCEPT !.current_file = PathName(file_path)],
                                  result)
        /\ events' = publish(events, "file_error",
                             [file_name |-> PathName(file_path), error |-> error,
                              result |-> result])
        /\ idx' = idx + 1
        /\ pc' = NextPosition
        /\ destination_path' = None

\* Mutant of RecordFailure: no per-file except clause, so the exception reaches
\* the outer except clause and ends the batch.
RecordFailure_propagate(file_path, error) ==
    /\ events' = publish(events, "organization_failed",
                         [error |-> error, status |-> "Organization failed"])
    /\ pc' = "failed"
    /\ destination_path' = None
    /\ UNCHANGED <<progress, idx>>

\* organize_files_by_strategy, lines 105-114: the per-file except clause.
RecordFailure(file_path, error) ==
    LET result == FileOperationResult(PathName(file_path), "organize", FALSE, None,
                                      error, 0, None, None)
    IN  /\ progress' = add_result([progress EXCEPT !.current_file = PathName(file_path)],
                                  result)
        /\ events' = publish(events, "file_error",
                             [file_name |-> PathName(file_path), error |-> error,
                              result |-> result])
        /\ idx' = idx + 1
        /\ pc' = NextPosition
        /\ destination_path' = None

\* What a metadata request can meet: the format-specific extractor raises,
\* which MetadataService.extract_metadata swallows (lines 109-112), or
\* MetadataService.extract_comprehensive_metadata itself raises.
MetadataOutcomes ==
    IF faults < MaxFaults THEN {"ok", "extractor_failed", "service_failed"} ELSE {"ok"}

\* The calls a metadata request adds to the log.
MetadataCalls(file_path, outcome) ==
    (IF outcome = "extractor_failed"
     THEN <<[op |-> "extract", path |-> file_path, ok |-> FALSE]>> ELSE <<>>)
    \o <<[op |-> "metadata", path |-> file_path, ok |-> outcome # "service_failed"]>>

\* organize_files_by_strategy, lines 71-77: metadata extraction and
\* organizer.get_destination_path for the file at idx.
resolve_destination ==
    /\ pc = "resolve"
    /\ \E outcome \in MetadataOutcomes :
          LET file_path == queue[idx]
          IN  \E r \in {get_destination_path(create_organizer(strategy), file_path,
                                             destination_dir)} :
              /\ faults' = IF outcome = "ok" THEN faults ELSE faults + 1
              /\ IF outcome = "service_failed"
                 THEN /\ RecordFailure(file_path, "metadata extraction failed")
                      /\ fslog' = fslog \o MetadataCalls(file_path, outcome)
                      /\ UNCHANGED returned
                 ELSE /\ fslog' = fslog \o MetadataCalls(file_path, outcome) \o r.calls
                      /\ IF r.ok
                         THEN /\ destination_path' = r.path
                              /\ returned' = Append(returned, [file_path |-> file_path,
                                                                path |-> r.path])
                              /\ progress' = [progress EXCEPT
                                                 !.current_file = PathName(file_path)]
                              /\ pc' = "mkdir"
                              /\ UNCHANGED <<events, idx>>
                         ELSE /\ RecordFailure(file_path, r.error)
                              /\ UNCHANGED returned
    /\ UNCHANGED <<call, mem, cli, bus, counters, disk, dirs, strategy, source_dir, destination_dir, target_dir, queue,
                   return_value>>

\* organize_files_by_strategy, lines 79-80: ensure_directory_exists on the
\* parent of the destination.
create_destination_directory ==
    /\ pc = "mkdir"
    /\ \E os_fault \in FaultChoices :
          LET directory == PathParent(destination_path)
              made      == ensure_directory_exists(directory, os_fault)
          IN  /\ fslog' = Append(fslog, MkdirCall(directory, made))
              /\ faults' = IF os_fault THEN faults + 1 ELSE faults
              /\ IF made
                 THEN /\ dirs' = MkdirDirs(directory)
                      /\ pc' = "move"
                      /\ UNCHANGED <<progress, events, idx, destination_path>>
                 ELSE /\ RecordFailure(queue[idx], "Failed to create directory")
                      /\ UNCHANGED dirs
    /\ UNCHANGED <<call, mem, cli, bus, counters, disk, strategy, source_dir, destination_dir, target_dir, queue,
                   returned, return_value>>

\* organize_files_by_strategy, lines 82-103: the move, the successful result
\* and its two events.
move_and_record ==
    /\ pc = "move"
    /\ \E os_fault \in FaultChoices :
          LET file_path == queue[idx]
          IN  \E m \in {move_file(file_path, destination_path, os_fault)} :
              /\ fslog' = fslog \o m.calls
              /\ faults' = IF os_fault THEN faults + 1 ELSE faults
              /\ disk' = m.disk
              /\ dirs' = m.dirs
              /\ IF m.ok
                 THEN LET file_size == IF file_path \in DOMAIN m.disk
                                       THEN Size(m.disk[file_path]) ELSE 0
                          result == FileOperationResult(
                                        PathName(file_path), "organize", TRUE,
                                        PathName(destination_path), None, file_size,
                                        file_path, destination_path)
                      IN  /\ progress' = add_result(progress, result)
                          /\ events' =
                               publish(
                                 publish(events, "organization_progress",
                                         [progress |-> get_summary(progress'),
                                          current_file |-> PathName(file_path),
                                          status |-> "File moved successfully"]),
                                 "file_processed",
                                 [file_name |-> PathName(file_path),
                                  strategy_used |-> strategy, result |-> result])
                          /\ idx' = idx + 1
                          /\ pc' = NextPosition
                          /\ destination_path' = None
                 ELSE RecordFailure(file_path, "Failed to move file")
    /\ UNCHANGED <<call, mem, cli, bus, counters, strategy, source_dir, destination_dir, target_dir, queue, returned,
                   return_value>>

\* organize_files_by_strategy, lines 116-121: the completion event.
publish_completed ==
    /\ pc = "complete"
    /\ events' = publish(events, "organization_completed",
                         [progress |-> get_summary(progress), strategy_used |-> strategy,
                          failed_operations |-> get_failed_operations(progress),
                          source_directory |-> source_dir,
                          destination_directory |-> destination_dir])
    /\ pc' = "completed"
    /\ UNCHANGED <<call, mem, cli, bus, counters, disk, dirs, strategy, source_dir, destination_dir, target_dir, queue,
                   idx, destination_path, progress, fslog, returned, return_value, faults>>

(***************************************************************************)
(* services/core/unorganize_service.py                                     *)
(***************************************************************************)
\* UnorganizeService._scan_directory_recursive: the sequences the recursive
\* walk can produce.  Each directory is listed in an order the operating
\* system chooses; a file joins the list where it is met, a directory is
\* walked where it is met.
\* Mutant of get_unique_destination_path: the name is kept as it is.
get_unique_destination_path_naive(target_directory, filename) ==
    PathJoin(target_directory, filename)

\* Mutant of scan_directory_recursive: subdirectories are not walked.
scan_directory_flat(path) == Orders(FilesIn(path))

RECURSIVE scan_directory_recursive(_)
RECURSIVE ScanEntries(_, _)
ScanEntries(order, k) ==
    IF k > Len(order) THEN {<<>>}
    ELSE LET heads == IF IsFile(order[k]) THEN {<<order[k]>>}
                      ELSE scan_directory_recursive(order[k])
         IN  {h \o t : h \in heads, t \in ScanEntries(order, k + 1)}

scan_directory_recursive(path) ==
    UNION {ScanEntries(order, 1) : order \in Orders(FilesIn(path) \cup DirsIn(path))}

\* Mutant of unorg_loop: the names tried are stem_1, stem_2, ...
RECURSIVE unorg_loop_plain(_, _, _, _, _)
unorg_loop_plain(target_directory, stem, suffix, counter, destination) ==
    IF Exists(destination)
    THEN unorg_loop_plain(target_directory, stem, suffix, counter + 1,
                          PathJoin(target_directory,
                                   stem \o "_" \o ToString(counter) \o suffix))
    ELSE destination

\* The while loop of _get_unique_destination_path.
RECURSIVE unorg_loop(_, _, _, _, _)
unorg_loop(target_directory, stem, suffix, counter, destination) ==
    IF Exists(destination)
    THEN unorg_loop(target_directory, stem, suffix, counter + 1,
                    PathJoin(target_directory,
                             stem \o "_unorg_" \o ToString(counter) \o suffix))
    ELSE destination

\* UnorganizeService._get_unique_destination_path
get_unique_destination_path(target_directory, filename) ==
    LET destination == PathJoin(target_directory, filename)
    IN  IF ~Exists(destination) THEN destination
        ELSE unorg_loop(target_directory, PathStem(filename), PathSuffix(filename),
                        1, destination)

\* UnorganizeService.unorganize_directory, lines 31-59 and 72-74: the checks,
\* the creation of the target directory, the scan and the start of the batch.
\* os_fault is an OSError in the creation of the target directory; scan_fault
\* one, other than PermissionError, raised by iterdir in the scan, which
\* leaves the function through its except branch.
UnorganizeInto(position, source, targets) ==
    /\ pc = position
    /\ source_dir' = source
    /\ target_dir' \in targets
    /\ \E os_fault \in FaultChoices, scan_fault \in FaultChoices :
          LET made == ensure_directory_exists(target_dir', os_fault)
              failed(error, calls) ==
                  /\ events' = publish(events, "unorganize_failed", [error |-> error])
                  /\ return_value' = FALSE
                  /\ pc' = "u_failed"
                  /\ fslog' = fslog \o calls
                  /\ UNCHANGED <<queue, idx, progress>>
          IN  /\ ~(os_fault /\ scan_fault)
              /\ faults' = IF os_fault \/ scan_fault THEN faults + 1 ELSE faults
              /\ IF ~Exists(source_dir')
                 THEN /\ failed("Source directory does not exist: " \o source_dir', <<>>)
                      /\ ~scan_fault
                      /\ UNCHANGED dirs
                 ELSE IF ~made
                 THEN /\ failed("Failed to create target directory: " \o target_dir',
                                 <<MkdirCall(target_dir', FALSE)>>)
                      /\ ~scan_fault
                      /\ UNCHANGED dirs
                 ELSE IF scan_fault
                 THEN /\ failed("Input/output error", <<MkdirCall(target_dir', TRUE)>>)
                      /\ dirs' = MkdirDirs(target_dir')
                 ELSE /\ dirs' = MkdirDirs(target_dir')
                      /\ fslog' = Append(fslog, MkdirCall(target_dir', TRUE))
                      /\ \E all_files \in scan_directory_recursive(source_dir') :
                            IF all_files = <<>>
                            THEN /\ events' = publish(events, "unorganize_completed",
                                                  [message |-> "No files found to unorganize",
                                                   files_processed |-> 0])
                                 /\ return_value' = TRUE
                                 /\ pc' = "u_completed"
                                 /\ UNCHANGED <<queue, idx, progress>>
                            ELSE /\ queue' = all_files
                                 /\ idx' = 1
                                 /\ progress' = OperationProgress(Len(all_files))
                                 /\ events' = publish(events, "unorganize_started",
                                                  [file_count |-> Len(all_files),
                                                   source_directory |-> source_dir',
                                                   target_directory |-> target_dir'])
                                 /\ return_value' = None
                                 /\ pc' = "u_file"
    /\ UNCHANGED <<call, mem, cli, bus, counters, disk, strategy, destination_dir, destination_path, returned>>

\* unorganize_directory into one of the flat directories outside the source.
UnorganizeDirectory(position, source) == UnorganizeInto(position, source, TargetDirs)

\* UnorganizeService.handle_unorganize_request for the organized directory.
unorganize_directory == UnorganizeDirectory("idle", OrganizedDir)

\* UnorganizeService._process_file for the file at idx.  stat_fault is an
\* OSError raised while the destination is looked up; os_fault one raised by
\* the move.
process_file ==
    /\ pc = "u_file"
    /\ \E stat_fault \in FaultChoices, os_fault \in FaultChoices :
          LET file_path == queue[idx]
              name      == PathName(file_path)
              current   == [progress EXCEPT !.current_file = name]
          IN  \E destination \in {get_unique_destination_path(target_dir, name)} :
              \E m \in {move_file(file_path, destination, os_fault)} :
              /\ ~(stat_fault /\ os_fault)
              /\ faults' = IF stat_fault \/ os_fault THEN faults + 1 ELSE faults
              /\ IF stat_fault
                 THEN LET result == FileOperationResult(name, "unorganize", FALSE, None,
                                                        "Permission denied", 0, None, None)
                      IN  /\ progress' = add_result(current, result)
                          /\ events' = publish(events, "file_error",
                                               [file_name |-> name,
                                                error |-> "Permission denied",
                                                operation |-> "unorganize"])
                          /\ UNCHANGED <<disk, dirs, fslog>>
                 ELSE LET file_size == IF file_path \in DOMAIN m.disk
                                       THEN Size(m.disk[file_path]) ELSE 0
                          result == FileOperationResult(
                                        name, "unorganize", m.ok, PathName(destination),
                                        IF m.ok THEN None ELSE "Failed to move file",
                                        file_size, None, None)
                      IN  /\ disk' = m.disk
                          /\ dirs' = m.dirs
                          /\ fslog' = fslog \o m.calls
                          /\ progress' = add_result(current, result)
                          /\ events' = publish(events, "unorganize_progress",
                                               [progress |-> get_summary(progress'),
                                                current_file |-> name,
                                                status |-> IF m.ok THEN "File moved"
                                                           ELSE "File move failed"])
              /\ idx' = idx + 1
              /\ pc' = IF idx = Len(queue) THEN "u_complete" ELSE "u_file"
    /\ UNCHANGED <<call, mem, cli, bus, counters, strategy, source_dir, destination_dir, target_dir, queue,
                   destination_path, returned, return_value>>

\* Mutant of unorganize_completed: the call returns whether no move failed.
unorganize_completed_if_none_failed ==
    /\ pc = "u_complete"
    /\ events' = publish(events, "unorganize_completed",
                         [progress |-> get_summary(progress),
                          files_processed |-> progress.processed_files,
                          failed_operations |-> get_failed_operations(progress)])
    /\ return_value' = (progress.failed_files = 0)
    /\ pc' = "u_completed"
    /\ UNCHANGED <<call, mem, cli, bus, counters, disk, dirs, strategy, source_dir, destination_dir, target_dir, queue,
                   idx, destination_path, progress, fslog, returned, faults>>

\* UnorganizeService.unorganize_directory, lines 65-70: the completion event
\* and the return value.
unorganize_completed ==
    /\ pc = "u_complete"
    /\ events' = publish(events, "unorganize_completed",
                         [progress |-> get_summary(progress),
                          files_processed |-> progress.processed_files,
                          failed_operations |-> get_failed_operations(progress)])
    /\ return_value' = TRUE
    /\ pc' = "u_completed"
    /\ UNCHANGED <<call, mem, cli, bus, counters, disk, dirs, strategy, source_dir, destination_dir, target_dir, queue,
                   idx, destination_path, progress, fslog, returned, faults>>

Next ==
    \/ handle_organize_request
    \/ scan_and_start
    \/ resolve_destination
    \/ create_destination_directory
    \/ move_and_record
    \/ publish_completed
    \/ unorganize_directory
    \/ process_file
    \/ unorganize_completed

Spec == Init /\ [][Next]_vars

(***************************************************************************)
(* Unorganize of a directory into itself or into one of its                *)
(* subdirectories, up to MaxRuns times.                                    *)
(***************************************************************************)
FlatDir == "/home/u/flat"
InPlaceTargets == {FlatDir, FlatDir \o "/sub"}
InPlaceFiles ==
    { FlatDir \o "/a.jpg", FlatDir \o "/b.txt", FlatDir \o "/sub/a.jpg" }

InitInPlace ==
    /\ \E files \in SUBSET InPlaceFiles :
          /\ disk = [p \in files |-> p]
          /\ dirs = {"/", "/etc", FlatDir} \cup PathParents(FlatDir)
                       \cup UNION {PathParents(p) : p \in files}
    /\ pc = "idle"
    /\ NoRequest

\* The first unorganize_directory call, with the target the source itself or
\* inside it.
unorganize_in_place == UnorganizeInto("idle", FlatDir, InPlaceTargets)

\* The same call once more after the previous one completed.
unorganize_again ==
    /\ Cardinality({i \in 1..Len(events) : events[i].type = "unorganize_completed"})
          < MaxRuns
    /\ UnorganizeInto("u_completed", source_dir, {target_dir})

NextInPlace ==
    \/ unorganize_in_place
    \/ unorganize_again
    \/ process_file
    \/ unorganize_completed

SpecInPlace == InitInPlace /\ [][NextInPlace]_vars

(***************************************************************************)
(* Unorganize of a tree whose subdirectories hold files of one name, into  *)
(* a target directory that may already hold files of that name.            *)
(***************************************************************************)
SameNameFolders(k) == {OrganizedDir \o "/d" \o ToString(j) : j \in 1..k}
TargetFiles == {"/home/u/flat/a.jpg", "/home/u/flat/a_unorg_1.jpg"}

InitUnorganize ==
    /\ \E k \in 1..MaxSameName, present \in SUBSET TargetFiles :
          LET files == {PathJoin(folder, "a.jpg") : folder \in SameNameFolders(k)}
                          \cup present
          IN  /\ disk = [p \in files |-> p]
              /\ dirs = {"/", "/etc"} \cup UNION {PathParents(p) : p \in files}
    /\ pc = "idle"
    /\ NoRequest

NextUnorganize ==
    \/ unorganize_directory
    \/ process_file
    \/ unorganize_completed

SpecUnorganize == InitUnorganize /\ [][NextUnorganize]_vars

(***************************************************************************)
(* The round trip: a flat directory is organized into a destination that   *)
(* holds no file yet, and the tree the organize leaves is then unorganized *)
(* into a directory that does not exist yet.                               *)
(***************************************************************************)
InitRoundTrip ==
    /\ \E src \in SUBSET SourceFiles :
          /\ Cardinality(src) <= MaxFiles
          /\ disk = [p \in src |-> p]
          /\ dirs = {"/", "/etc", SourceDir} \cup PathParents(SourceDir)
    /\ pc = "idle"
    /\ NoRequest

\* UnorganizeService.handle_unorganize_request for the destination root of the
\* organize that has completed.
unorganize_resulting_tree == UnorganizeDirectory("completed", destination_dir)

NextRoundTrip ==
    \/ handle_organize_request
    \/ scan_and_start
    \/ resolve_destination
    \/ create_destination_directory
    \/ move_and_record
    \/ publish_completed
    \/ unorganize_resulting_tree
    \/ process_file
    \/ unorganize_completed

SpecRoundTrip == InitRoundTrip /\ [][NextRoundTrip]_vars

(***************************************************************************)
(* Organize of one file of PlacementFiles into an empty destination.       *)
(***************************************************************************)
InitPlacement ==
    /\ \E file_path \in PlacementFiles :
          /\ disk = [p \in {file_path} |-> p]
          /\ dirs = {"/", "/etc", SourceDir} \cup PathParents(SourceDir)
    /\ pc = "idle"
    /\ NoRequest

NextPlacement ==
    \/ handle_organize_request
    \/ scan_and_start
    \/ resolve_destination
    \/ create_destination_directory
    \/ move_and_record
    \/ publish_completed

SpecPlacement == InitPlacement /\ [][NextPlacement]_vars

\* OrganizationService.handle_organize_request for a request whose
\* destination_path is the empty string.
handle_organize_request_empty_root ==
    /\ pc = "idle"
    /\ strategy' \in Strategies
    /\ destination_dir' = ""
    /\ source_dir' = SourceDir
    /\ events' = publish(events, "organization_started",
                         [strategy |-> strategy', source_directory |-> source_dir',
                          destination_directory |-> destination_dir'])
    /\ pc' = "scan"
    /\ UNCHANGED <<call, mem, cli, bus, counters, disk, dirs, target_dir, queue, idx, destination_path, progress,
                   fslog, returned, return_value, faults>>

NextEmptyRoot ==
    \/ handle_organize_request_empty_root
    \/ scan_and_start
    \/ resolve_destination
    \/ create_destination_directory
    \/ move_and_record
    \/ publish_completed

SpecEmptyRoot == Init /\ [][NextEmptyRoot]_vars

(***************************************************************************)
(* core/events.py: the EventBus and its subscribers.  A callback returns   *)
(* or raises an Exception; it does not change the subscriber lists.        *)
(***************************************************************************)
\* Mutant of dispatch: no try/except around the callback.
RECURSIVE dispatch_uncaught(_, _, _)
dispatch_uncaught(callbacks, raising, i) ==
    IF i > Len(callbacks)
    THEN [called |-> <<>>, printed |-> <<>>, propagated |-> FALSE]
    ELSE IF callbacks[i] \in raising
    THEN [called |-> <<callbacks[i]>>, printed |-> <<>>, propagated |-> TRUE]
    ELSE LET rest == dispatch_uncaught(callbacks, raising, i + 1)
         IN  [rest EXCEPT !.called = <<callbacks[i]>> \o @]

\* EventBus.publish, lines 31-35: the loop over the subscribers from index i.
\* The result holds the callbacks called, the errors printed, and whether an
\* exception left publish.
RECURSIVE dispatch(_, _, _)
dispatch(callbacks, raising, i) ==
    IF i > Len(callbacks)
    THEN [called |-> <<>>, printed |-> <<>>, propagated |-> FALSE]
    ELSE LET rest == dispatch(callbacks, raising, i + 1)
         IN  [rest EXCEPT !.called  = <<callbacks[i]>> \o @,
                          !.printed = (IF callbacks[i] \in raising
                                       THEN <<callbacks[i]>> ELSE <<>>) \o @]

\* What the bus variables leave alone.
BusFrame ==
    UNCHANGED <<disk, dirs, strategy, source_dir, destination_dir, target_dir, pc, queue,
                idx, destination_path, progress, events, fslog, returned, return_value,
                faults, counters, cli, mem, call>>

InitBus ==
    /\ disk = <<>>
    /\ dirs = {"/"}
    /\ pc = "idle"
    /\ NoRequest

\* EventBus.subscribe
subscribe ==
    /\ \E event_type \in EventTypes, callback \in Callbacks :
          /\ Len(bus.subscribers[event_type]) < MaxSubscribers
          /\ bus' = [bus EXCEPT !.subscribers[event_type] = Append(@, callback)]
    /\ BusFrame

\* list.remove: without the first occurrence of x.
RECURSIVE ListRemove(_, _)
ListRemove(list, x) ==
    IF list = <<>> THEN <<>>
    ELSE IF Head(list) = x THEN Tail(list)
    ELSE <<Head(list)>> \o ListRemove(Tail(list), x)

\* EventBus.unsubscribe
unsubscribe ==
    /\ \E event_type \in EventTypes, callback \in Callbacks :
          bus' = [bus EXCEPT !.subscribers[event_type] = ListRemove(@, callback)]
    /\ BusFrame

\* EventBus.publish of one event; raising is the set of callbacks that raise
\* an Exception for it.
EventBus_publish ==
    /\ \E event_type \in EventTypes, raising \in SUBSET Callbacks :
          LET registered == bus.subscribers[event_type]
              d          == dispatch(registered, raising, 1)
          IN  bus' = [bus EXCEPT !.last = [event_type |-> event_type,
                                           registered |-> registered,
                                           raising    |-> raising,
                                           called     |-> d.called,
                                           printed    |-> d.printed,
                                           propagated |-> d.propagated]]
    /\ BusFrame

NextBus ==
    \/ subscribe
    \/ unsubscribe
    \/ EventBus_publish

SpecBus == InitBus /\ [][NextBus]_vars

(***************************************************************************)
(* organizers/base_organizer.py: BaseOrganizer.organize_files, the batch   *)
(* entry point of an organizer.  Its caller chooses the list of files, so  *)
(* files of the same name from several directories can be in one batch.    *)
(***************************************************************************)
\* Same-named files a caller may pass in one list.
BatchFiles == {"/home/u/in/a.jpg", "/home/u/in2/a.jpg", "/home/u/in3/a.jpg"}

InitBase ==
    /\ \E src \in SUBSET BatchFiles, k \in 0..MaxExisting :
          /\ Cardinality(src) <= MaxFiles
          /\ disk = [p \in src \cup ExistingFiles(k) |-> p]
          /\ dirs = {"/", "/etc"} \cup UNION {PathParents(p) : p \in src \cup ExistingFiles(k)}
    /\ pc = "b_idle"
    /\ NoRequest

\* get_strategy_name of the three organizers.
get_strategy_name(organizer) ==
    CASE organizer = "date" -> "Date-based Organization"
      [] organizer = "type" -> "Type-based Organization"
      [] OTHER              -> "Smart Organization"

\* A Python float quotient a / b * 100, kept as a fraction.
Percent(a, b) == [numerator |-> a * 100, denominator |-> b]

\* BaseOrganizer.organize_files, lines 36-46: reset_counters, the creation of
\* the destination root and the organization_started event.  A failing mkdir
\* raises out of organize_files.
organize_files ==
    /\ pc = "b_idle"
    /\ strategy' \in Strategies
    /\ destination_dir' \in DestinationDirs
    /\ counters' = reset_counters
    /\ \E file_paths \in Orders(BatchFiles \cap DOMAIN disk), os_fault \in FaultChoices :
          LET made == ensure_directory_exists(destination_dir', os_fault)
          IN  /\ fslog' = Append(fslog, MkdirCall(destination_dir', made))
              /\ faults' = IF os_fault THEN faults + 1 ELSE faults
              /\ IF made
                 THEN /\ dirs' = MkdirDirs(destination_dir')
                      /\ queue' = file_paths
                      /\ idx' = 1
                      /\ events' = publish(events, "organization_started",
                                           [strategy |-> get_strategy_name(strategy'),
                                            total_files |-> Len(file_paths),
                                            destination |-> destination_dir'])
                      /\ pc' = IF file_paths = <<>> THEN "b_complete" ELSE "b_resolve"
                 ELSE /\ pc' = "b_raised"
                      /\ UNCHANGED <<dirs, queue, idx, events>>
    /\ UNCHANGED <<call, mem, cli, bus, disk, source_dir, target_dir, destination_path, progress, returned,
                   return_value>>

\* Mutant of organization_error: the file that raised counts as processed too.
organization_error_processed(file_path, error) ==
    /\ counters' = [counters EXCEPT !.errors = @ + 1, !.files_processed = @ + 1]
    /\ idx' = idx + 1
    /\ pc' = IF idx = Len(queue) THEN "b_complete" ELSE "b_resolve"
    /\ destination_path' = None

\* BaseOrganizer.organize_files, lines 60-65: the except clause of the loop.
organization_error(file_path, error) ==
    /\ counters' = [counters EXCEPT !.errors = @ + 1]
    /\ idx' = idx + 1
    /\ pc' = IF idx = Len(queue) THEN "b_complete" ELSE "b_resolve"
    /\ destination_path' = None

\* BaseOrganizer._organize_single_file, lines 116-126, for the file at idx:
\* _validate_inputs, _validate_security, _extract_metadata_safely and
\* get_destination_path.
_organize_single_file_resolve ==
    /\ pc = "b_resolve"
    /\ \E outcome \in MetadataOutcomes :
          LET file_path == queue[idx]
              name      == PathName(file_path)
              failed(error, log, calls) ==
                  /\ organization_error(file_path, error)
                  /\ events' = publish(log, "organization_error",
                                       [file_name |-> name, error |-> error])
                  /\ fslog' = fslog \o calls
                  /\ UNCHANGED returned
              log1 == IF outcome = "service_failed"
                      THEN publish(events, "metadata_extraction_failed",
                                   [file_name |-> name,
                                    error |-> "metadata extraction failed"])
                      ELSE events
          IN  \E r \in {get_destination_path(strategy, file_path, destination_dir)} :
              IF ~Exists(file_path)
              THEN /\ failed("Invalid or non-existent file path: " \o file_path,
                             events, <<>>)
                   /\ UNCHANGED faults
              ELSE IF ~IsFile(file_path)
              THEN /\ failed("Path is not a file: " \o file_path, events, <<>>)
                   /\ UNCHANGED faults
              ELSE IF strategy = "smart" /\ ~validate_file_extension(PathSuffix(name))
              THEN /\ failed("Dangerous file extension: " \o PathSuffix(name),
                             events, <<>>)
                   /\ UNCHANGED faults
              ELSE /\ faults' = IF outcome = "ok" THEN faults ELSE faults + 1
                   /\ IF r.ok
                      THEN /\ destination_path' = r.path
                           /\ returned' = Append(returned, [file_path |-> file_path,
                                                            path |-> r.path])
                           /\ events' = log1
                           /\ fslog' = fslog \o MetadataCalls(file_path, outcome) \o r.calls
                           /\ pc' = "b_move"
                           /\ UNCHANGED <<idx, counters>>
                      ELSE failed(r.error, log1,
                                  MetadataCalls(file_path, outcome) \o r.calls)
    /\ UNCHANGED <<call, mem, cli, bus, disk, dirs, strategy, source_dir, destination_dir, target_dir, queue,
                   progress, return_value>>

\* BaseOrganizer._organize_single_file, lines 128-135, and organize_files,
\* lines 50-58: the creation of the parent directory, the move, and the
\* counters and the progress event of a file that was moved.
_organize_single_file_move ==
    /\ pc = "b_move"
    /\ \E mkdir_fault \in FaultChoices, os_fault \in FaultChoices :
          LET file_path == queue[idx]
              directory == PathParent(destination_path)
              made      == ensure_directory_exists(directory, mkdir_fault)
          IN  \E m \in {move_file(file_path, destination_path, os_fault)} :
              /\ ~(mkdir_fault /\ os_fault)
              /\ faults' = IF mkdir_fault \/ os_fault THEN faults + 1 ELSE faults
              /\ IF ~made
                 THEN /\ organization_error(file_path, "mkdir failed")
                      /\ events' = publish(events, "organization_error",
                                           [file_name |-> PathName(file_path),
                                            error |-> "mkdir failed"])
                      /\ fslog' = Append(fslog, MkdirCall(directory, FALSE))
                      /\ UNCHANGED <<disk, dirs>>
                 ELSE /\ fslog' = Append(fslog, MkdirCall(directory, TRUE)) \o m.calls
                      /\ disk' = m.disk
                      /\ dirs' = m.dirs \cup MkdirDirs(directory)
                      /\ IF m.ok
                         THEN /\ counters' = [counters EXCEPT !.files_moved = @ + 1,
                                                              !.files_processed = @ + 1]
                              /\ events' =
                                   publish(events, "organization_progress",
                                           [processed |-> counters'.files_processed,
                                            total |-> Len(queue),
                                            progress |-> Percent(counters'.files_processed,
                                                                 Len(queue)),
                                            current_file_name |-> PathName(file_path)])
                              /\ idx' = idx + 1
                              /\ pc' = IF idx = Len(queue) THEN "b_complete"
                                       ELSE "b_resolve"
                              /\ destination_path' = None
                         ELSE /\ organization_error(
                                    file_path,
                                    "Failed to move file from " \o file_path \o " to "
                                        \o destination_path)
                              /\ events' =
                                   publish(events, "organization_error",
                                           [file_name |-> PathName(file_path),
                                            error |-> "Failed to move file from "
                                                      \o file_path \o " to "
                                                      \o destination_path])
    /\ UNCHANGED <<call, mem, cli, bus, strategy, source_dir, destination_dir, target_dir, queue, progress,
                   returned, return_value>>

\* BaseOrganizer.organize_files, lines 67-80: the organization_completed event
\* and the returned summary.
organize_files_return ==
    /\ pc = "b_complete"
    /\ events' = publish(events, "organization_completed",
                         [strategy |-> get_strategy_name(strategy),
                          processed |-> counters.files_processed,
                          moved |-> counters.files_moved,
                          errors |-> counters.errors])
    /\ return_value' =
          [strategy |-> get_strategy_name(strategy),
           files_processed |-> counters.files_processed,
           files_moved |-> counters.files_moved,
           errors |-> counters.errors,
           success_rate |-> IF counters.files_processed > 0
                            THEN Percent(counters.files_moved, counters.files_processed)
                            ELSE Percent(0, 1)]
    /\ pc' = "b_completed"
    /\ UNCHANGED <<call, mem, cli, bus, disk, dirs, strategy, source_dir, destination_dir, target_dir, queue,
                   idx, destination_path, progress, fslog, returned, faults, counters>>

NextBase ==
    \/ organize_files
    \/ _organize_single_file_resolve
    \/ _organize_single_file_move
    \/ organize_files_return

SpecBase == InitBase /\ [][NextBase]_vars

(***************************************************************************)
(* Functions called directly: services/core/validation_service.py and the  *)
(* completion_percentage property of models/operation_result.py.           *)
(***************************************************************************)
\* Path inputs: a start and a continuation.  "@" stands for the NUL character.
PathStarts ==
    { "/home/u/in", "/home/u", "/home/u/etc", "rel", "/etc", "/ETC", "/usr/bin",
      "/var/log", "/var/logs", "/etcetera", "/binaries", "/development", "/runtime",
      "C:\\Windows" }
PathTails ==
    { "", "/a.jpg", "/new/deep", "/../out", "/..", "/x@y", "/../../../etc/passwd",
      "/a.jpg/under" }
PathInputs == {""} \cup {start \o tail : start \in PathStarts, tail \in PathTails}

InitCalls ==
    /\ \E made \in SUBSET {"/home/u/out", "/etcetera"} :
          /\ disk = [p \in {"/home/u/in/a.jpg"} |-> p]
          /\ dirs = {"/", "/etc", SourceDir} \cup PathParents(SourceDir) \cup made
    /\ pc = "idle"
    /\ NoRequest

\* Everything of the state that a direct call leaves alone.
CallFrame ==
    UNCHANGED <<disk, dirs, strategy, source_dir, destination_dir, target_dir, pc, queue,
                idx, destination_path, progress, events, fslog, returned, return_value,
                faults, counters, bus, cli, mem>>

\* A call of ValidationService.validate_and_sanitize_path.
call_validate_and_sanitize_path ==
    /\ \E path_input \in PathInputs :
          call' = [function |-> "validate_and_sanitize_path", args |-> <<path_input>>,
                   result |-> validate_and_sanitize_path(path_input)]
    /\ CallFrame

\* A call of ValidationService.is_safe_path with an absolute path.
call_is_safe_path ==
    /\ \E path_input \in PathInputs \ {""} :
          \E abs_path \in {IF StartsWith(path_input, "rel") THEN Resolve(path_input)
                            ELSE path_input} :
             call' = [function |-> "is_safe_path", args |-> <<abs_path>>,
                      result |-> is_safe_path(abs_path)]
    /\ CallFrame

\* A read of completion_percentage on an OperationProgress with the given
\* total_files and processed_files.
read_completion_percentage ==
    /\ \E total_files \in 0..MaxTotal, processed_files \in 0..MaxTotal :
          \E self \in {[OperationProgress(total_files) EXCEPT
                            !.processed_files = processed_files]} :
             call' = [function |-> "completion_percentage",
                      args |-> <<self.processed_files, self.total_files>>,
                      result |-> completion_percentage(self)]
    /\ CallFrame

NextCalls ==
    \/ call_validate_and_sanitize_path
    \/ call_is_safe_path
    \/ read_completion_percentage

SpecCalls == InitCalls /\ [][NextCalls]_vars

(***************************************************************************)
(* models/operation_result.py: the objects behind get_summary.             *)
(***************************************************************************)
InitSnapshot ==
    /\ disk = <<>>
    /\ dirs = {"/"}
    /\ pc = "idle"
    /\ NoRequest

\* Everything of the state that is not an object of the OperationProgress.
MemFrame ==
    UNCHANGED <<disk, dirs, strategy, source_dir, destination_dir, target_dir, pc, queue,
                idx, destination_path, progress, events, fslog, returned, return_value,
                faults, counters, bus, cli, call>>

\* The list object self.results of the OperationProgress.
ResultsList(heap) == heap[1].results

\* OperationProgress.add_result on the objects: the new FileOperationResult
\* object joins the heap and its address the list self.results.
add_result_object(heap, result) ==
    LET address == Len(heap) + 1
    IN  [ Append(heap, result) EXCEPT
            ![ResultsList(heap)].items  = Append(@, address),
            ![1].processed_files  = @ + 1,
            ![1].successful_files = IF result.success THEN @ + 1 ELSE @,
            ![1].failed_files     = IF result.success THEN @ ELSE @ + 1 ]

\* Mutant of get_summary_object: "results" is self.results itself.
get_summary_live(heap) ==
    Append(heap, [ total_files |-> heap[1].total_files,
                   processed   |-> heap[1].processed_files,
                   successful  |-> heap[1].successful_files,
                   failed      |-> heap[1].failed_files,
                   results     |-> ResultsList(heap) ])

\* OperationProgress.get_summary on the objects: a new dictionary for each
\* result (_result_to_dict), a new list of them, and the new summary
\* dictionary, which is the last object of the heap returned.
get_summary_object(heap) ==
    LET items == heap[ResultsList(heap)].items
        dicts == [i \in 1..Len(items) |-> heap[items[i]]]
        list  == [ items |-> [i \in 1..Len(items) |-> Len(heap) + i] ]
    IN  heap \o dicts
          \o << list,
                [ total_files |-> heap[1].total_files,
                  processed   |-> heap[1].processed_files,
                  successful  |-> heap[1].successful_files,
                  failed      |-> heap[1].failed_files,
                  results     |-> Len(heap) + Len(items) + 1 ] >>

\* What a reader of the summary dictionary at an address sees.
SummaryValue(heap, address) ==
    LET items == heap[heap[address].results].items
    IN  [ total_files |-> heap[address].total_files,
          processed   |-> heap[address].processed,
          successful  |-> heap[address].successful,
          failed      |-> heap[address].failed,
          results     |-> [i \in 1..Len(items) |-> heap[items[i]]] ]

\* What a reader of the OperationProgress sees.
ProgressValue(heap) ==
    LET items == heap[ResultsList(heap)].items
    IN  [ total_files      |-> heap[1].total_files,
          processed_files  |-> heap[1].processed_files,
          successful_files |-> heap[1].successful_files,
          failed_files     |-> heap[1].failed_files,
          results          |-> [i \in 1..Len(items) |-> heap[items[i]]] ]

\* The orchestrator records a result: progress.add_result(result).
record_result ==
    /\ Len(mem.added) < MaxResults
    /\ \E success \in BOOLEAN :
          LET result == FileOperationResult("a.jpg", "organize", success,
                            IF success THEN "a.jpg" ELSE None,
                            IF success THEN None ELSE "Failed to move file", 0,
                            IF success THEN "/home/u/in/a.jpg" ELSE None,
                            IF success THEN "/home/u/out/Images/a.jpg" ELSE None)
          IN  mem' = [mem EXCEPT !.heap = add_result_object(@, result),
                                 !.added = Append(@, result)]
    /\ MemFrame

\* A caller takes a summary: progress.get_summary().
take_summary ==
    /\ Len(mem.snapshots) < MaxSnapshots
    /\ \E heap \in {get_summary_object(mem.heap)} :
          mem' = [mem EXCEPT
                    !.heap = heap,
                    !.snapshots = Append(@, [address |-> Len(heap),
                                             taken |-> SummaryValue(heap, Len(heap)),
                                             touched |-> FALSE])]
    /\ MemFrame

\* The holder of a summary assigns to one of its keys.
holder_sets_key ==
    /\ \E k \in 1..Len(mem.snapshots) :
          /\ mem.heap[mem.snapshots[k].address].processed # -1
          /\ mem' = [mem EXCEPT !.heap[mem.snapshots[k].address].processed = -1,
                                 !.snapshots[k].touched = TRUE]
    /\ MemFrame

\* The holder of a summary appends an entry to its "results" list, once.
holder_appends_entry ==
    /\ \E k \in 1..Len(mem.snapshots) :
          LET list == mem.heap[mem.snapshots[k].address].results
              entry == FileOperationResult("x", "organize", FALSE, None, "added by holder",
                                           0, None, None)
          IN  /\ \A j \in 1..Len(mem.heap[list].items) :
                    mem.heap[mem.heap[list].items[j]].source_file # "x"
              /\ mem' = [mem EXCEPT
                           !.heap = [Append(@, entry) EXCEPT
                                       ![list].items = Append(@, Len(mem.heap) + 1)],
                           !.snapshots[k].touched = TRUE]
    /\ MemFrame

\* The holder of a summary changes a key of the first entry of its "results"
\* list.
holder_changes_entry ==
    /\ \E k \in 1..Len(mem.snapshots) :
          LET items == mem.heap[mem.heap[mem.snapshots[k].address].results].items
          IN  \E j \in {1} \cap DOMAIN items :
                /\ mem.heap[items[j]].source_file \notin {"renamed", "x"}
                /\ mem' = [mem EXCEPT !.heap[items[j]].source_file = "renamed",
                                       !.snapshots[k].touched = TRUE]
    /\ MemFrame

NextSnapshot ==
    \/ record_result
    \/ take_summary
    \/ holder_sets_key
    \/ holder_appends_entry
    \/ holder_changes_entry

SpecSnapshot == InitSnapshot /\ [][NextSnapshot]_vars

(***************************************************************************)
(* unorganize.py: the command-line script.                                 *)
(***************************************************************************)
\* The retries assigned at line 46 and the directory the script flattens into.
max_retries == 3
OutputDir == "/home/u/flat"

InitCli ==
    /\ \E k \in 0..MaxExisting :
          /\ disk = [p \in ExistingFiles(k) |-> p]
          /\ dirs = {"/", "/etc", SourceDir} \cup PathParents(SourceDir)
                       \cup UNION {PathParents(p) : p \in ExistingFiles(k)}
    /\ pc = "idle"
    /\ NoRequest

\* Everything of the state that the script does not use.
CliFrame ==
    UNCHANGED <<strategy, source_dir, destination_dir, target_dir, pc, queue, idx,
                destination_path, progress, events, fslog, returned, return_value,
                counters, bus, mem, call>>

\* os.walk(top), top-down: the files of a directory in listing order, then
\* its subdirectories in listing order.
RECURSIVE os_walk(_)
RECURSIVE WalkDirs(_, _)
WalkDirs(order, k) ==
    IF k > Len(order) THEN {<<>>}
    ELSE {h \o t : h \in os_walk(order[k]), t \in WalkDirs(order, k + 1)}

os_walk(top) ==
    UNION {{f \o d : f \in Orders(FilesIn(top)), d \in WalkDirs(order, 1)} :
              order \in Orders(DirsIn(top))}

\* unorganize_directory, lines 27-32: the while loop that looks for a free name.
RECURSIVE destination_file_loop(_, _, _, _)
destination_file_loop(output_dir, file, counter, destination_file) ==
    IF Exists(destination_file)
    THEN destination_file_loop(output_dir, file, counter + 1,
                               PathJoin(output_dir, PathStem(file) \o "_"
                                           \o ToString(counter) \o PathSuffix(file)))
    ELSE destination_file

\* unorganize_directory, lines 11-22: the check of the source, the creation of
\* the output directory and the walk.
cli_unorganize_directory ==
    /\ cli.pc = "idle"
    /\ \E os_fault \in FaultChoices :
          /\ faults' = IF os_fault /\ Exists(OrganizedDir) THEN faults + 1 ELSE faults
          /\ IF ~Exists(OrganizedDir)
             THEN /\ cli' = [cli EXCEPT !.pc = "exit",
                                        !.printed = Append(@, "source does not exist")]
                  /\ UNCHANGED dirs
             ELSE IF os_fault \/ MkdirBlocked(OutputDir)
             THEN /\ cli' = [cli EXCEPT !.pc = "exit", !.raised = "OSError"]
                  /\ UNCHANGED dirs
             ELSE /\ dirs' = MkdirDirs(OutputDir)
                  /\ \E files \in os_walk(OrganizedDir) :
                        cli' = [cli EXCEPT !.pc = IF files = <<>> THEN "moved" ELSE "walk",
                                           !.files = files, !.i = 1]
    /\ UNCHANGED disk
    /\ CliFrame

\* unorganize_directory, lines 23-39: one file of the walk.
cli_move_file ==
    /\ cli.pc = "walk"
    /\ \E os_fault \in FaultChoices :
          LET source_file == cli.files[cli.i]
              file        == PathName(source_file)
          IN  \E destination_file \in
                    {destination_file_loop(OutputDir, file, 1, PathJoin(OutputDir, file))} :
              /\ faults' = IF os_fault THEN faults + 1 ELSE faults
              /\ disk' = IF os_fault THEN disk
                         ELSE [q \in (DOMAIN disk \ {source_file}) \cup {destination_file} |->
                                  IF q = destination_file THEN disk[source_file] ELSE disk[q]]
              /\ cli' = [cli EXCEPT
                           !.printed = Append(@, IF os_fault THEN "Error moving" ELSE "Moved"),
                           !.files_moved = IF os_fault THEN @ ELSE @ + 1,
                           !.i = @ + 1,
                           !.pc = IF cli.i = Len(cli.files) THEN "moved" ELSE "walk"]
    /\ UNCHANGED dirs
    /\ CliFrame

\* unorganize_directory, lines 41-42: the summary line and the call
\* cleanup_empty_dirs(organized_dir), which passes one argument to a function
\* of two required parameters: Python raises TypeError before the body runs.
cli_call_cleanup ==
    /\ cli.pc = "moved"
    /\ cli' = [cli EXCEPT !.printed = Append(@, "Unorganize done"),
                          !.raised = "TypeError", !.pc = "exit"]
    /\ UNCHANGED <<disk, dirs, faults>>
    /\ CliFrame

\* A caller that passes both arguments: cleanup_empty_dirs(directory, retries).
call_cleanup_empty_dirs ==
    /\ cli.pc = "idle"
    /\ \E retries \in 0..max_retries :
          cli' = [cli EXCEPT !.pc = "cleanup", !.retries = retries, !.depth = 1]
    /\ UNCHANGED <<disk, dirs, faults>>
    /\ CliFrame

\* The filesystem after shutil.rmtree(directory) has succeeded.
rmtree_disk(directory) ==
    [q \in {x \in DOMAIN disk : directory \notin PathParents(x)} |-> disk[q]]
rmtree_dirs(directory) ==
    {d \in dirs : d # directory /\ directory \notin PathParents(d)}

\* cleanup_empty_dirs, lines 46-57: the body of one call.  The parameter
\* retries is overwritten at line 46; a call that returns lets every caller
\* return, the recursive call being the last statement of each.  A call
\* deeper than the interpreter's recursion limit raises RecursionError, which
\* no frame catches (each caller is in its except clause).
cleanup_empty_dirs ==
    /\ cli.pc = "cleanup"
    /\ LET retries == max_retries
       IN  IF Exists(OrganizedDir)
           THEN \E rmtree_fails \in BOOLEAN :
                  IF ~rmtree_fails
                  THEN /\ disk' = rmtree_disk(OrganizedDir)
                       /\ dirs' = rmtree_dirs(OrganizedDir)
                       /\ cli' = [cli EXCEPT !.retries = retries, !.attempts = @ + 1,
                                             !.printed = Append(@, "has been removed"),
                                             !.pc = "exit"]
                  ELSE /\ UNCHANGED <<disk, dirs>>
                       /\ cli' = [cli EXCEPT
                                    !.attempts = @ + 1,
                                    !.printed = @ \o <<"An error has occurred", "Trying again">>,
                                    !.retries = IF retries > 0 /\ cli.depth < RecursionLimit
                                                THEN retries - 1 ELSE retries,
                                    !.depth = IF retries > 0 /\ cli.depth < RecursionLimit
                                              THEN @ + 1 ELSE @,
                                    !.raised = IF retries > 0 /\ cli.depth = RecursionLimit
                                               THEN "RecursionError" ELSE @,
                                    !.pc = IF retries > 0 /\ cli.depth < RecursionLimit
                                           THEN "cleanup" ELSE "exit"]
           ELSE /\ UNCHANGED <<disk, dirs>>
                /\ cli' = [cli EXCEPT !.retries = retries,
                                      !.printed = Append(@, "OS path does not exist"),
                                      !.pc = "exit"]
    /\ UNCHANGED faults
    /\ CliFrame

NextCli ==
    \/ cli_unorganize_directory
    \/ cli_move_file
    \/ cli_call_cleanup
    \/ call_cleanup_empty_dirs
    \/ cleanup_empty_dirs

SpecCli == InitCli /\ [][NextCli]_vars

(***************************************************************************)
(* Properties.                                                             *)
(***************************************************************************)
\* The results recorded so far and the failed ones among them.
Results == IF progress = NoProgress THEN <<>> ELSE progress.results
Failures == SelectSeq(Results, LAMBDA r : ~r.success)

\* The number of published events of a type, and the type of the last event.
EventCount(event_type) == Cardinality({i \in 1..Len(events) : events[i].type = event_type})
LastEvent == IF events = <<>> THEN None ELSE events[Len(events)].type

\* An organize batch, or an unorganize batch, is the running one.
Organizing == pc \in {"scan", "resolve", "mkdir", "move", "complete", "completed", "failed"}
Unorganizing == pc \in {"u_file", "u_complete", "u_completed", "u_failed"}

\* The extension of the file is on the denylist of dangerous extensions.
Denylisted(path) == Lower(LStripDots(PathSuffix(PathName(path)))) \in dangerous_extensions

\* C1: a failure while one file is processed (destination resolution,
\* directory creation, a move that returns false) is recorded as a failed
\* result carrying a non-empty error message and the loop goes on: a finished
\* batch ends with the completion event and has one result per scanned file,
\* and when exactly one file failed, failed_files is 1 and successful_files
\* is N - 1.  No recorded result ever leads to the failed outcome.
C1_PartialFailureIsolated ==
    /\ \A i \in 1..Len(Results) :
          ~Results[i].success => Results[i].error_message \notin {None, ""}
    /\ pc \in {"failed", "u_failed"} => Results = <<>>
    /\ (pc \in {"completed", "u_completed"} /\ progress # NoProgress) =>
          /\ LastEvent = (IF pc = "completed" THEN "organization_completed"
                          ELSE "unorganize_completed")
          /\ Len(Results) = Len(queue)
          /\ Len(Failures) = 1 =>
                /\ progress.failed_files = 1
                /\ progress.successful_files = Len(queue) - 1

\* Witness of C1: an organize batch of three files has completed; the second
\* file failed because its move returned false, the other two were moved.
C1_Witness ==
    /\ pc = "completed"
    /\ Len(queue) = 3
    /\ Len(Failures) = 1
    /\ Results[1].success
    /\ ~Results[2].success /\ Results[2].error_message = "Failed to move file"
    /\ Results[3].success

\* C2: at every point of a batch, processed_files is successful_files plus
\* failed_files.
C2_ProcessedIsSuccessfulPlusFailed ==
    progress # NoProgress =>
        progress.processed_files = progress.successful_files + progress.failed_files

\* Witness of C2: results of both kinds have been added.
C2_Witness ==
    /\ progress # NoProgress
    /\ progress.successful_files >= 1
    /\ progress.failed_files >= 1
    /\ progress.processed_files = 3

\* C3: whichever strategy the batch runs with, a file with a denylisted
\* extension is never moved by an organize batch and its result is a failure.
C3_DenylistedNeverMovedAnyStrategy ==
    Organizing =>
        /\ \A p \in DOMAIN disk : Denylisted(disk[p]) => p = disk[p]
        /\ \A i \in 1..Len(Results) :
              Denylisted(Results[i].source_file) => ~Results[i].success

\* C4: with the Smart strategy a file with a denylisted extension is
\* rejected at the extension validation: no directory creation and no move
\* is attempted for it, it stays at its source path, its result is a failure,
\* and the batch goes on to a result for every scanned file.
C4_SmartRejectsDenylisted ==
    (Organizing /\ strategy = "smart") =>
        /\ \A p \in DOMAIN disk : Denylisted(disk[p]) => p = disk[p]
        /\ \A i \in 1..Len(Results) :
              Denylisted(Results[i].source_file) =>
                 /\ ~Results[i].success
                 /\ Results[i].error_message \in
                       { "Invalid or dangerous file extension: .exe",
                         "metadata extraction failed" }
        /\ pc \in {"mkdir", "move"} => ~Denylisted(queue[idx])
        /\ \A i \in 1..Len(fslog) :
              fslog[i].op \in {"validate", "mkdir", "move"} => ~Denylisted(fslog[i].path)
        /\ pc = "completed" => Len(Results) = Len(queue)

\* Witness of C4: a Smart batch of a.jpg, c.exe and b.pdf has completed; c.exe
\* was rejected at the extension validation and is still in the source
\* directory, the file scanned after it was moved.
C4_Witness ==
    /\ pc = "completed"
    /\ strategy = "smart"
    /\ Len(queue) = 3
    /\ Denylisted(queue[2])
    /\ Results[2].error_message = "Invalid or dangerous file extension: .exe"
    /\ queue[2] \in DOMAIN disk
    /\ Results[1].success
    /\ Results[3].success

\* A mutating call at index i of the log is covered when an earlier call
\* validated its path, or a path directly inside it, with success.
Covered(i) ==
    \E j \in 1..(i - 1) :
        /\ fslog[j].op = "validate"
        /\ fslog[j].ok
        /\ fslog[j].path = fslog[i].path \/ PathParent(fslog[j].path) = fslog[i].path

\* C5: every directory creation and every move of a batch is preceded by a
\* successful validate_and_sanitize_path of the path it mutates.
C5_MutationsAreValidated ==
    \A i \in 1..Len(fslog) :
        (fslog[i].op \in {"mkdir", "move"} /\ fslog[i].ok) => Covered(i)

\* The n-th name get_unique_file_path tries for a file name: the name itself,
\* then stem_1, stem_2, ...
CandidateName(filename, n) ==
    IF n = 0 THEN filename
    ELSE PathStem(filename) \o "_" \o ToString(n) \o PathSuffix(filename)

\* The largest counter a batch of the model can reach.
MaxSuffix == MaxExisting + MaxFiles

\* The counter of the i-th returned path; -1 when it is none of the names tried.
SuffixNumber(i) ==
    LET name == PathName(returned[i].file_path)
        N    == {n \in 0..MaxSuffix : PathName(returned[i].path) = CandidateName(name, n)}
    IN  IF N = {} THEN -1 ELSE CHOOSE n \in N : TRUE

\* The i-th and the j-th returned paths are for files of the same name
\* resolved to the same folder.
SameSlot(i, j) ==
    /\ PathName(returned[i].file_path) = PathName(returned[j].file_path)
    /\ PathParent(returned[i].path) = PathParent(returned[j].path)

\* The file of the i-th returned path is at that path: its move succeeded.
MovedTo(i) ==
    /\ returned[i].path \in DOMAIN disk
    /\ disk[returned[i].path] = returned[i].file_path

C7_DestinationIsFree ==
    /\ pc = "mkdir" => ~Exists(destination_path)
    /\ pc = "move" => ~IsFile(destination_path)

\* Witness of C7: the destination folder held a.jpg and a_1.jpg, and the
\* resolver returned a_2.jpg for the a.jpg of the batch.
C7_Witness ==
    /\ pc = "move"
    /\ PathName(queue[idx]) = "a.jpg"
    /\ PathName(destination_path) = "a_2.jpg"
    /\ IsFile(PathJoin(PathParent(destination_path), "a.jpg"))
    /\ IsFile(PathJoin(PathParent(destination_path), "a_1.jpg"))

\* Every file is where it was in the initial state.
NothingMoved == \A p \in DOMAIN disk : disk[p] = p

\* C8: the organize batch is at its failed outcome only through a failure of
\* the scan: then no file has been moved, no result has been recorded, no
\* directory creation or move has been attempted, organization_failed has been
\* published exactly once and organization_completed not at all.  Once the
\* scan has succeeded the batch is never at the failed outcome, and its
\* completion event is published once, as the last event.
C8_FailedOnlyFromScan ==
    /\ pc = "failed" =>
          /\ progress = NoProgress
          /\ NothingMoved
          /\ fslog = <<>>
          /\ EventCount("organization_failed") = 1
          /\ EventCount("organization_completed") = 0
          /\ LastEvent = "organization_failed"
    /\ (Organizing /\ progress # NoProgress) =>
          /\ pc \in {"resolve", "mkdir", "move", "complete", "completed"}
          /\ EventCount("organization_failed") = 0
          /\ pc # "completed" => EventCount("organization_completed") = 0
          /\ pc = "completed" =>
                /\ EventCount("organization_completed") = 1
                /\ LastEvent = "organization_completed"

\* Witness of C8: a batch completed although every one of its files failed.
C8_Witness ==
    /\ pc = "completed"
    /\ Len(queue) = 2
    /\ Len(Failures) = 2

\* C9: when the call of the metadata provider fails for a file of an organize
\* batch, a metadata_extraction_failed event is published for that file and the
\* failure alone does not make the file's result a failure.
C9_MetadataFailureIsNotFatal ==
    /\ \A i \in 1..Len(fslog) :
          (fslog[i].op = "metadata" /\ ~fslog[i].ok) =>
             \E k \in 1..Len(events) :
                /\ events[k].type = "metadata_extraction_failed"
                /\ events[k].data.file_name = PathName(fslog[i].path)
    /\ \A i \in 1..Len(Results) :
          Results[i].error_message # "metadata extraction failed"

\* C10: every path a resolver returns was passed through
\* validate_and_sanitize_path before it was returned, and passes it.
C10_ReturnedPathIsValidated ==
    pc = "mkdir" =>
        /\ \E j \in 1..Len(fslog) :
              /\ fslog[j].op = "validate"
              /\ fslog[j].ok
              /\ fslog[j].path = destination_path
        /\ validate_and_sanitize_path(destination_path) # None

\* C11: in an organize batch whose destination root is the empty string,
\* every file gets a failed result and no file is moved.
C11_EmptyRootIsRejected ==
    (Organizing /\ destination_dir = "") =>
        /\ NothingMoved
        /\ \A i \in 1..Len(Results) : ~Results[i].success

\* The events of the files processed so far, from result k on: for a moved
\* file organization_progress and then file_processed, for a failed file
\* file_error, each naming the file.
RECURSIVE PerFileEvents(_)
PerFileEvents(k) ==
    IF k > Len(Results) THEN <<>>
    ELSE (IF Results[k].success
          THEN << [type |-> "organization_progress", file |-> PathName(queue[k])],
                  [type |-> "file_processed", file |-> PathName(queue[k])] >>
          ELSE << [type |-> "file_error", file |-> PathName(queue[k])] >>)
         \o PerFileEvents(k + 1)

\* The events an organize batch has published when it is at its position.
ExpectedEvents ==
    << [type |-> "organization_started", file |-> None] >>
    \o (IF pc = "scan" THEN <<>>
        ELSE IF pc = "failed" THEN << [type |-> "organization_failed", file |-> None] >>
        ELSE << [type |-> "organization_progress", file |-> None] >>
             \o PerFileEvents(1)
             \o (IF pc = "completed"
                 THEN << [type |-> "organization_completed", file |-> None] >>
                 ELSE <<>>))

\* The type of the i-th published event and the file it names, if it names one.
EventShape(i) ==
    LET e == events[i]
    IN  [type |-> e.type,
         file |-> IF e.type \in {"file_processed", "file_error"} THEN e.data.file_name
                  ELSE IF e.type = "organization_progress"
                          /\ e.data.status # "Files discovered"
                  THEN e.data.current_file
                  ELSE None]

\* C12, as stated: between the started notification and the terminal one a
\* finished organize batch has published exactly one notification per file.
C12_OneNotificationPerFile ==
    pc = "completed" => Len(events) = Len(queue) + 2

\* C12, amended: the events of an organize batch are organization_started,
\* then (unless the scan failed) one organization_progress "Files discovered",
\* then for each file in scan order organization_progress followed by
\* file_processed when it was moved and one file_error when it failed, then
\* exactly one terminal event: organization_completed, carrying the summary
\* and the failed operations of the progress, or organization_failed.
C12_EventsInOrder ==
    Organizing =>
        /\ Len(events) = Len(ExpectedEvents)
        /\ \A i \in 1..Len(events) : EventShape(i) = ExpectedEvents[i]
        /\ pc = "completed" =>
              /\ events[Len(events)].data.progress = get_summary(progress)
              /\ events[Len(events)].data.failed_operations =
                    get_failed_operations(progress)

\* Witness of C12: a batch of three files has completed; the second file
\* failed, the other two were moved, and eight events were published.
C12_Witness ==
    /\ pc = "completed"
    /\ Len(queue) = 3
    /\ Results[1].success /\ ~Results[2].success /\ Results[3].success
    /\ Len(events) = 8

\* C13: for every publish, an exception raised by a subscriber callback does
\* not leave publish, and every subscriber registered for the event type,
\* those after a failing one included, is called once, in registration order;
\* each failure is printed.
C13_SubscriberFailureIsContained ==
    /\ ~bus.last.propagated
    /\ bus.last.called = bus.last.registered
    /\ bus.last.printed =
          SelectSeq(bus.last.registered, LAMBDA c : c \in bus.last.raising)

\* Witness of C13: the first of two subscribers raised and the second one was
\* called.
C13_Witness ==
    /\ Len(bus.last.registered) = 2
    /\ bus.last.registered[1] \in bus.last.raising
    /\ bus.last.registered[2] \notin bus.last.raising
    /\ bus.last.called[2] = bus.last.registered[2]

(***************************************************************************)
(* The round trip (SpecRoundTrip)                                          *)
(***************************************************************************)
\* The organization_completed event of the round trip, once published.
OrganizeCompleted == {i \in 1..Len(events) : events[i].type = "organization_completed"}
OrganizeSummary == events[CHOOSE i \in OrganizeCompleted : TRUE].data.progress

\* The K files of the flat directory: every scanned file has a result when the
\* organize completes.
OriginalFiles ==
    {PathJoin(SourceDir, OrganizeSummary.results[i].source_file) :
        i \in 1..Len(OrganizeSummary.results)}

\* What the last event, unorganize_completed, reports.
UnorganizeReport == events[Len(events)].data
UnorganizeFailed ==
    IF UnorganizeReport.files_processed = 0 THEN 0
    ELSE Len(UnorganizeReport.failed_operations)

\* The total byte count of a set of files, and of the files at a set of paths.
RECURSIVE TotalSize(_)
TotalSize(ids) ==
    IF ids = {} THEN 0
    ELSE LET id == CHOOSE x \in ids : TRUE IN Size(id) + TotalSize(ids \ {id})

RECURSIVE BytesAt(_)
BytesAt(paths) ==
    IF paths = {} THEN 0
    ELSE LET p == CHOOSE x \in paths : TRUE IN Size(disk[p]) + BytesAt(paths \ {p})

RoundTripDone == pc \in {"u_completed", "u_failed"}

C15_CleanupIsBounded ==
    /\ cli.attempts <= 1 + max_retries
    /\ (cli.pc = "exit" /\ cli.files_moved > 0 /\ Exists(OrganizedDir)) =>
          /\ cli.attempts >= 1
          /\ cli.raised \notin {"TypeError", "RecursionError"}

(***************************************************************************)
(* Unorganize of same-named files (SpecUnorganize)                         *)
(***************************************************************************)
\* The n-th name _get_unique_destination_path tries for a file name.
UnorgCandidate(filename, n) ==
    IF n = 0 THEN filename
    ELSE PathStem(filename) \o "_unorg_" \o ToString(n) \o PathSuffix(filename)

\* The largest counter an unorganize of the model can reach.
MaxUnorgSuffix == MaxSameName + Cardinality(TargetFiles)

\* C16: a step of _process_file leaves every file of the target directory in
\* place with its content, loses no file, and a file it moves goes to
\* target/name when that path was free and otherwise to the first of
\* name_unorg_1, name_unorg_2, ... that did not exist.
C16_UnorganizeNeverOverwrites ==
    [][pc = "u_file" =>
         LET file_path == queue[idx]
             name      == PathName(file_path)
             result    == progress'.results[Len(progress'.results)]
         IN  /\ \A p \in FilesIn(target_dir) : p \in DOMAIN disk' /\ disk'[p] = disk[p]
             /\ Cardinality(DOMAIN disk') = Cardinality(DOMAIN disk)
             /\ result.success =>
                   \E n \in 0..MaxUnorgSuffix :
                      /\ result.destination_path = UnorgCandidate(name, n)
                      /\ \A m \in 0..(n - 1) :
                            Exists(PathJoin(target_dir, UnorgCandidate(name, m)))
                      /\ ~Exists(PathJoin(target_dir, UnorgCandidate(name, n)))
                      /\ PathJoin(target_dir, UnorgCandidate(name, n)) \in DOMAIN disk'
                      /\ disk'[PathJoin(target_dir, UnorgCandidate(name, n))] = disk[file_path]
    ]_vars

\* C16 witness: three files named a.jpg from three subdirectories have been
\* moved into an empty target and are there as a.jpg, a_unorg_1.jpg and
\* a_unorg_2.jpg.
C16_Witness ==
    /\ pc = "u_completed"
    /\ progress # NoProgress
    /\ progress.successful_files = 3
    /\ \A n \in 0..2 :
          /\ PathJoin(target_dir, UnorgCandidate("a.jpg", n)) \in DOMAIN disk
          /\ PathParent(disk[PathJoin(target_dir, UnorgCandidate("a.jpg", n))])
                \in SameNameFolders(MaxSameName)

(***************************************************************************)
(* The OperationProgress of a batch                                        *)
(***************************************************************************)
\* The positions at which a batch has its OperationProgress and is running.
InBatch == pc \in {"resolve", "mkdir", "move", "complete", "u_file", "u_complete"}

\* C17: the step that starts a batch sets total_files to the number of files
\* found, with the three counters at zero; no later step of the batch changes
\* total_files, and processed_files, successful_files and failed_files never
\* decrease.
C17_TotalFixedCountersMonotone ==
    [][/\ (pc \in {"scan", "completed"} /\ pc' \in {"resolve", "complete", "u_file"}) =>
            /\ progress'.total_files = Len(queue')
            /\ progress'.processed_files = 0
            /\ progress'.successful_files = 0
            /\ progress'.failed_files = 0
       /\ InBatch =>
            /\ progress'.total_files = progress.total_files
            /\ progress'.processed_files >= progress.processed_files
            /\ progress'.successful_files >= progress.successful_files
            /\ progress'.failed_files >= progress.failed_files
    ]_vars

\* C17 witness: a batch of three files has recorded a moved file and a failed
\* file and still has total_files = 3.
C17_Witness ==
    /\ InBatch
    /\ progress.total_files = 3
    /\ progress.successful_files >= 1
    /\ progress.failed_files >= 1
    /\ progress.processed_files = 3

(***************************************************************************)
(* What the notifications carry                                            *)
(***************************************************************************)
\* The published events whose payload holds a get_summary dictionary.
SummaryEvents ==
    {i \in 1..Len(events) :
        events[i].type \in {"organization_progress", "organization_completed",
                            "unorganize_progress"}}

\* C18: no result of a published progress summary carries the full source
\* path or the full destination path of a file.
C18_SummariesCarryNoFullPath ==
    \A i \in SummaryEvents :
       \A j \in 1..Len(events[i].data.progress.results) :
          LET r == events[i].data.progress.results[j]
          IN  /\ r.original_source_path = None
              /\ r.organized_destination_path = None

(***************************************************************************)
(* The summary as a copy (SpecSnapshot)                                    *)
(***************************************************************************)
\* The OperationProgress as add_result alone has built it.
ExpectedProgress ==
    [ total_files      |-> MaxResults,
      processed_files  |-> Len(mem.added),
      successful_files |-> Len(SelectSeq(mem.added, LAMBDA r : r.success)),
      failed_files     |-> Len(SelectSeq(mem.added, LAMBDA r : ~r.success)),
      results          |-> mem.added ]

\* C19: whatever the holders of summaries do to them, the OperationProgress
\* is what add_result made it; and a summary its holder has not changed is
\* what it was when it was taken, whatever was added or changed since.
C19_SummaryIsACopy ==
    /\ ProgressValue(mem.heap) = ExpectedProgress
    /\ \A k \in 1..Len(mem.snapshots) :
          ~mem.snapshots[k].touched =>
             SummaryValue(mem.heap, mem.snapshots[k].address) = mem.snapshots[k].taken

\* C19 witness: a summary taken after the first result is unchanged and shows
\* one result, a second result has been added since, and the holder of
\* another summary has changed it.
C19_Witness ==
    /\ Len(mem.added) = 2
    /\ \E k, l \in 1..Len(mem.snapshots) :
          /\ ~mem.snapshots[k].touched
          /\ Len(mem.snapshots[k].taken.results) = 1
          /\ Len(SummaryValue(mem.heap, mem.snapshots[k].address).results) = 1
          /\ mem.snapshots[l].touched
          /\ Len(SummaryValue(mem.heap, mem.snapshots[l].address).results) = 2

\* C20: the file_size of the result of every moved file, of an organize or of
\* an unorganize batch, is the size of a file of that name that the batch
\* took from its source.
C20_FileSizeIsSourceSize ==
    \A i \in 1..Len(Results) :
       Results[i].success =>
          \E p \in DOMAIN disk :
             /\ PathName(disk[p]) = Results[i].source_file
             /\ Results[i].file_size = Size(disk[p])

(***************************************************************************)
(* Placement of one file (SpecPlacement)                                   *)
(***************************************************************************)
\* The date a file is organized by: the date its extractor reports, else its
\* modification time.
OrganizationDate(id) == IF XDate(id) # NoDate THEN XDate(id) ELSE MTime(id)

\* <root>/<YYYY>/<MM> for a date.
YearMonthFolder(root, date) ==
    root \o "/" \o ToString(date.year) \o "/"
         \o (IF date.month < 10 THEN "0" ELSE "") \o ToString(date.month)

\* The category of the extension table for a file name, else Other.
CategoryFolder(name) ==
    LET listing == {k \in 1..Len(FILE_TYPE_CATEGORIES) :
                       Lower(PathSuffix(name)) \in FILE_TYPE_CATEGORIES[k].extensions}
    IN  IF listing = {} THEN "Other"
        ELSE FILE_TYPE_CATEGORIES[CHOOSE k \in listing : \A j \in listing : k <= j].category

\* C21: with the Smart strategy, the path resolved for a file is
\* <root>/<YYYY>/<MM>/<name> when its organization date is at most 30 days
\* before now and <root>/<YYYY>/<MM>/<Category>/<name> otherwise; and a file
\* with an accepted extension under a safe root is resolved to a path.
C21_SmartPlacement ==
    strategy = "smart" =>
       /\ \A i \in 1..Len(returned) :
             LET id   == returned[i].file_path
                 date == OrganizationDate(id)
                 name == PathName(id)
             IN  returned[i].path =
                    IF Now.day - date.day <= 30
                    THEN YearMonthFolder(destination_dir, date) \o "/" \o name
                    ELSE YearMonthFolder(destination_dir, date) \o "/"
                            \o CategoryFolder(name) \o "/" \o name
       /\ (pc = "completed" /\ faults = 0 /\ destination_dir = "/home/u/out") =>
             \A p \in DOMAIN disk :
                validate_file_extension(PathSuffix(PathName(disk[p]))) =>
                   \E i \in 1..Len(returned) : returned[i].file_path = disk[p]

\* C21 witness: f.jpg, modified 31 days ago, has been moved by the Smart
\* strategy to 2026/10/Images.
C21_Witness ==
    /\ strategy = "smart"
    /\ pc = "completed"
    /\ "/home/u/out/2026/10/Images/f.jpg" \in DOMAIN disk
    /\ \E i \in 1..Len(returned) :
          /\ returned[i].file_path = "/home/u/in/f.jpg"
          /\ returned[i].path = "/home/u/out/2026/10/Images/f.jpg"

\* C22: with the Date strategy, the path resolved for a file is
\* <root>/<YYYY>/<MM>/<name> with year and month of the date the metadata
\* provider supplies for the file, and of the modification time only when it
\* supplies none.
C22_DatePlacementUsesHint ==
    strategy = "date" =>
       \A i \in 1..Len(returned) :
          LET id == returned[i].file_path
          IN  returned[i].path =
                 YearMonthFolder(destination_dir, OrganizationDate(id)) \o "/" \o PathName(id)

(***************************************************************************)
(* Path validation called directly.                                        *)
(***************************************************************************)
Validated == call.function = "validate_and_sanitize_path"
PathInput == call.args[1]

\* The path has a ".." component.
HasDotDot(p) == \E i \in 1..Len(SplitPath(p, 1)) : SplitPath(p, 1)[i] = ".."

\* The path holds a NUL character.
HasNul(p) == \E i \in 1..Len(p) : Char(p, i) = Nul

\* The path is a denylisted directory or lies inside one.
UnderDenylisted(p) ==
    \E danger \in dangerous_paths_lower :
        Lower(p) = danger \/ StartsWith(Lower(p), danger \o "/")

\* C23 as stated: an input with a ".." segment, an embedded null byte or a
\* canonical form under a denylisted system directory yields None, never a path.
C23_TraversalAndNulRejected ==
    /\ Validated
    /\ PathInput # ""
    /\ \/ HasDotDot(PathInput)
       \/ HasNul(PathInput)
       \/ UnderDenylisted(Resolve(StripNul(PathInput)))
    => call.result = None

\* C23 amended: null bytes are removed and ".." segments are folded rather
\* than rejected.  A returned path is the canonical form of the input without
\* its null bytes, it has no ".." segment and no null byte and is not under a
\* denylisted directory; an input whose canonical form is under a denylisted
\* directory yields None.
C23_SanitizedOrRejected ==
    Validated /\ PathInput # "" =>
        /\ (call.result # None =>
              /\ call.result = Resolve(StripNul(PathInput))
              /\ ~HasDotDot(call.result)
              /\ ~HasNul(call.result)
              /\ ~UnderDenylisted(call.result))
        /\ (UnderDenylisted(Resolve(StripNul(PathInput))) => call.result = None)

C23_Witness ==
    /\ Validated
    /\ PathInput = "/home/u/in/../out"
    /\ call.result = "/home/u/out"

\* The lower-cased path begins with the characters of a denylist entry.
HasDenylistPrefix(p) ==
    \E danger \in dangerous_paths :
        /\ Len(p) >= Len(danger)
        /\ Lower(SubSeq(p, 1, Len(danger))) = Lower(danger)

\* The path is, or can be created under, an existing directory or file.
Creatable(p) == IsFile(p) \/ IsDir(p) \/ IsDir(ExistingAncestor(p))

\* C30: is_safe_path rejects every path whose lower-cased string begins with a
\* denylist entry, whether or not the entry ends at a component boundary
\* (/etcetera, /binaries, /development, /runtime), and a path without such a
\* prefix is not rejected by the denylist: it is refused only when it cannot
\* be created under an existing directory.
C30_DenylistIsStringPrefix ==
    call.function = "is_safe_path" =>
        /\ (HasDenylistPrefix(call.args[1]) => call.result = FALSE)
        /\ (~HasDenylistPrefix(call.args[1]) => call.result = Creatable(call.args[1]))

C30_Witness ==
    /\ call.function = "is_safe_path"
    /\ call.args[1] = "/etcetera/a.jpg"
    /\ "/etcetera" \in dirs
    /\ ~UnderDenylisted(call.args[1])
    /\ call.result = FALSE

(***************************************************************************)
(* completion_percentage read directly.                                    *)
(***************************************************************************)
\* C24: completion_percentage is 100.0 when total_files is 0 and
\* processed_files / total_files * 100 otherwise (50.0 for 5 of 10); no read
\* divides by zero.
C24_CompletionPercentage ==
    call.function = "completion_percentage" =>
        LET processed_files == call.args[1]
            total_files     == call.args[2]
        IN  /\ call.result # ZeroDivisionError
            /\ call.result.denominator > 0
            /\ total_files = 0 => call.result = [numerator |-> 100, denominator |-> 1]
            /\ total_files # 0 =>
                  call.result.numerator * total_files
                      = processed_files * 100 * call.result.denominator
            /\ processed_files = 5 /\ total_files = 10 =>
                  call.result = [numerator |-> 50, denominator |-> 1]

C24_Witness ==
    /\ call.function = "completion_percentage"
    /\ call.args = <<0, 0>>
    /\ call.result = [numerator |-> 100, denominator |-> 1]

C24_WitnessHalf ==
    /\ call.function = "completion_percentage"
    /\ call.args = <<5, 10>>
    /\ call.result = [numerator |-> 50, denominator |-> 1]

(***************************************************************************)
(* One result per scanned file                                             *)
(***************************************************************************)
\* C25: in an organize batch and in an unorganize batch every scanned file
\* contributes exactly one result: the results recorded so far are those of
\* the first files of the scan, in scan order, one each; while a file is being
\* processed the files before it have their results and it has none; and when
\* the completion event is published processed_files, total_files and the
\* number of results are equal.
C25_OneResultPerFileInScanOrder ==
    progress # NoProgress =>
        /\ progress.total_files = Len(queue)
        /\ progress.processed_files = Len(Results)
        /\ Len(Results) <= Len(queue)
        /\ \A i \in 1..Len(Results) : Results[i].source_file = PathName(queue[i])
        /\ pc \in {"resolve", "mkdir", "move", "u_file"} => Len(Results) = idx - 1
        /\ pc \in {"completed", "u_completed"} =>
              /\ progress.processed_files = progress.total_files
              /\ Len(Results) = progress.total_files

C25_Witness ==
    /\ pc = "completed"
    /\ LastEvent = "organization_completed"
    /\ Len(queue) = 3
    /\ \A i \in 1..3 : Results[i].source_file = PathName(queue[i])
    /\ Results[1].success /\ ~Results[2].success /\ ~Results[3].success

C25_WitnessUnorganize ==
    /\ pc = "u_completed"
    /\ LastEvent = "unorganize_completed"
    /\ Len(queue) >= 2
    /\ Len(Results) = Len(queue)
    /\ \E i \in 1..Len(Results) : ~Results[i].success

(***************************************************************************)
(* The outcome of unorganize_directory                                     *)
(***************************************************************************)
TerminalUnorganizeEvents ==
    EventCount("unorganize_completed") + EventCount("unorganize_failed")

\* C26: a call of unorganize_directory publishes exactly one terminal event,
\* unorganize_completed or unorganize_failed, as its last event, and returns
\* True exactly when that event is unorganize_completed; none is published
\* before the call returns.  unorganize_started is published at most once and
\* only for a scan that found a file; a batch whose moves all failed ends with
\* unorganize_completed and True.
C26_OneTerminalEventAndResult ==
    /\ ~Unorganizing => TerminalUnorganizeEvents = 0 /\ EventCount("unorganize_started") = 0
    /\ pc \in {"u_file", "u_complete"} =>
          /\ TerminalUnorganizeEvents = 0
          /\ return_value = None
    /\ pc = "u_completed" =>
          /\ TerminalUnorganizeEvents = 1
          /\ LastEvent = "unorganize_completed"
          /\ return_value = TRUE
    /\ pc = "u_failed" =>
          /\ TerminalUnorganizeEvents = 1
          /\ LastEvent = "unorganize_failed"
          /\ return_value = FALSE
          /\ EventCount("unorganize_started") = 0
    /\ EventCount("unorganize_started") <= 1
    /\ \A k \in 1..Len(events) :
          events[k].type = "unorganize_started" =>
             /\ events[k].data.file_count >= 1
             /\ events[k].data.file_count = Len(queue)
    /\ pc = "u_completed" =>
          (EventCount("unorganize_started") = 0
             <=> events[Len(events)].data.files_processed = 0)

\* Witness of C26: the batch found two files, every move failed, and the call
\* ended with unorganize_completed and True.
C26_Witness ==
    /\ pc = "u_completed"
    /\ return_value = TRUE
    /\ Len(Results) = 2
    /\ Len(Failures) = 2
    /\ LastEvent = "unorganize_completed"

\* The scan found no file: completed without unorganize_started.
C26_WitnessNoFiles ==
    /\ pc = "u_completed"
    /\ EventCount("unorganize_started") = 0
    /\ events[Len(events)].data.files_processed = 0
    /\ return_value = TRUE

\* The scan raised: unorganize_failed and False.
C26_WitnessScanFailed ==
    /\ pc = "u_failed"
    /\ fslog # <<>> /\ fslog[Len(fslog)].ok
    /\ return_value = FALSE

(***************************************************************************)
(* The placements the Smart strategy selects                               *)
(***************************************************************************)
\* Extensions, metadata and dates _select_strategy is applied to.
SelectExtensions == {".jpg", ".mp3", ".mp4", ".txt", ".pdf", ".zip", ".dat", ""}
SelectDates == {Now, Recent, Edge, PastEdge, Old, Taken}

\* C27: _select_strategy returns date_primary or date_type for every
\* extension, metadata and date, and no file placed by the Smart strategy is
\* resolved to a type-first path, <root>/<Category>/<YYYY>/<MM>/<name> or
\* <root>/<Category>/<name>.
C27_NeverTypeFirst ==
    /\ \A file_extension \in SelectExtensions, rich \in BOOLEAN, date \in SelectDates :
          Smart_select_strategy(file_extension, [camera |-> rich, is_media |-> rich], date)
              \in {"date_primary", "date_type"}
    /\ create_organizer(strategy) = "smart" =>
          \A i \in 1..Len(returned) :
             LET name == PathName(returned[i].file_path)
             IN  ~StartsWith(returned[i].path,
                             destination_dir \o "/" \o CategoryFolder(name) \o "/")

\* Witness of C27: o.txt, a document modified long ago, is resolved by the
\* Smart strategy to the date-first path with its category below the month.
C27_Witness ==
    /\ create_organizer(strategy) = "smart"
    /\ \E i \in 1..Len(returned) :
          /\ returned[i].file_path = "/home/u/in/o.txt"
          /\ returned[i].path = "/home/u/out/2026/08/Documents/o.txt"

(***************************************************************************)
(* The counters of BaseOrganizer.organize_files                            *)
(***************************************************************************)
\* The per-file events of an organize_files batch, in publication order.
FileEvents ==
    SelectSeq(events, LAMBDA e : e.type \in {"organization_progress", "organization_error"})

FileEventName(e) ==
    IF e.type = "organization_progress" THEN e.data.current_file_name ELSE e.data.file_name

\* C28: while organize_files runs, files_processed equals files_moved and the
\* files handled so far are counted once, in files_processed or in errors;
\* when it returns, files_processed == files_moved, files_processed + errors
\* is the number of input files, the returned summary carries these counters,
\* and one event per input file was published, in input order:
\* organization_progress for a processed file, organization_error for a file
\* whose pipeline raised.
C28_OrganizeFilesCounters ==
    /\ pc \in {"b_resolve", "b_move", "b_complete", "b_completed"} =>
          /\ counters.files_processed = counters.files_moved
          /\ counters.files_processed + counters.errors = idx - 1
          /\ EventCount("organization_progress") = counters.files_processed
          /\ EventCount("organization_error") = counters.errors
          /\ \A k \in 1..Len(FileEvents) : FileEventName(FileEvents[k]) = PathName(queue[k])
    /\ pc = "b_completed" =>
          /\ counters.files_processed + counters.errors = Len(queue)
          /\ Len(FileEvents) = Len(queue)
          /\ return_value.files_processed = counters.files_processed
          /\ return_value.files_moved = counters.files_moved
          /\ return_value.errors = counters.errors

\* Witness of C28: a batch of three files returned with two files processed
\* and one error.
C28_Witness ==
    /\ pc = "b_completed"
    /\ Len(queue) = 3
    /\ counters.files_processed = 2
    /\ counters.files_moved = 2
    /\ counters.errors = 1
    /\ EventCount("organization_error") = 1

(***************************************************************************)
(* Unorganize of a directory into itself                                   *)
(***************************************************************************)
\* The name _get_unique_destination_path gives a file on its k-th collision.
UnorgName(name, k) == PathStem(name) \o "_unorg_" \o ToString(k) \o PathSuffix(name)

\* The target of the unorganize call is its source or lies inside it.
TargetInSource == target_dir = source_dir \/ StartsWith(target_dir, source_dir \o "/")

C29_WitnessInside ==
    /\ pc = "u_completed"
    /\ target_dir = FlatDir \o "/sub"
    /\ EventCount("unorganize_completed") = 1
    /\ FlatDir \o "/sub/a_unorg_1.jpg" \in DOMAIN disk
    /\ disk[FlatDir \o "/sub/a_unorg_1.jpg"] = FlatDir \o "/sub/a.jpg"

=============================================================================
